---- MODULE Spec2Model ----
(***************************************************************************)
(* Anonymous target resolution (buck2_build_api/src/analysis/              *)
(* anon_targets.rs): the registry of pending (promise, key | keys)         *)
(* entries, the construction of keys from a rule and raw attributes, the   *)
(* memoized resolution of keys and the binding of promises.                *)
(***************************************************************************)
EXTENDS Integers, Sequences, FiniteSets, TLC

(***************************************************************************)
(* Bounds                                                                  *)
(***************************************************************************)
\* promises (registrations) created in one analysis scope
MaxPromises == 3
\* (rule, attrs) pairs handed to one register_many call
MaxList == 2
\* calls of eval_anon_target made by other subsystems
MaxEvalCalls == 1
\* promises created in a scope that runs next to eval_anon_target callers
MaxDicePromises == 2

(***************************************************************************)
(* Option<T> as a sequence of length 0 or 1                                *)
(***************************************************************************)
None == <<>>
Some(x) == <<x>>

Range(s) == {s[i] : i \in 1..Len(s)}

(***************************************************************************)
(* Strings that the code inspects are sequences of characters.             *)
(***************************************************************************)
\* position of the first occurrence of character c in s, 0 when absent
RECURSIVE IndexOfFrom(_, _, _)
IndexOfFrom(s, c, i) ==
    IF i > Len(s) THEN 0
    ELSE IF s[i] = c THEN i
    ELSE IndexOfFrom(s, c, i + 1)

IndexOf(s, c) == IndexOfFrom(s, c, 1)

\* position of the first "//" in s, 0 when absent
RECURSIVE SlashSlashFrom(_, _)
SlashSlashFrom(s, i) ==
    IF i + 1 > Len(s) THEN 0
    ELSE IF s[i] = "/" /\ s[i + 1] = "/" THEN i
    ELSE SlashSlashFrom(s, i + 1)

(***************************************************************************)
(* Labels                                                                  *)
(***************************************************************************)
TargetLabel(cell, package, target) ==
    [cell |-> cell, package |-> package, target |-> target]

NoLabel == TargetLabel(<<>>, <<>>, <<>>)

\* Display of TargetLabel: cell//package:target
TargetLabelDisplay(l) == l.cell \o <<"/", "/">> \o l.package \o <<":">> \o l.target

\* TargetName::new: a target name is not empty and holds no ':' or '/'
TargetNameValid(s) ==
    /\ Len(s) > 0
    /\ \A i \in 1..Len(s) : s[i] \notin {":", "/"}

(***************************************************************************)
(* Starlark values handed to anon_target(s) as attribute values            *)
(***************************************************************************)
StrValue(s) == [type |-> "string", s |-> s, label |-> NoLabel]
IntValue(s) == [type |-> "int", s |-> s, label |-> NoLabel]
\* a resolved `dependency` value; s is the text of its configured label
DepValue(s) == [type |-> "dependency", s |-> s, label |-> NoLabel]
\* a `label` value
LabelValue(l) == [type |-> "label", s |-> <<>>, label |-> l]

(***************************************************************************)
(* Errors: AnonTargetsError and the coercion error of coerce_item.  The    *)
(* argument is the sequence of strings the error carries.                  *)
(***************************************************************************)
Error(kind, arg) == [err |-> kind, arg |-> arg]

Ok(v) == [ok |-> TRUE, val |-> Some(v), error |-> None]
Err(e) == [ok |-> FALSE, val |-> None, error |-> Some(e)]

(***************************************************************************)
(* Attribute literals.  CoercedAttr and ConfiguredAttr are told apart by   *)
(* the stage field.                                                        *)
(***************************************************************************)
CoercedAttr(lit, s) == [stage |-> "coerced", lit |-> lit, s |-> s]
ConfiguredAttr(lit, s) == [stage |-> "configured", lit |-> lit, s |-> s]

\* AttrConfigurationContext for AnonAttrCtx: unspecified configuration, no
\* transitions; configuring a literal keeps its content
Configure(a) == Ok(ConfiguredAttr(a.lit, a.s))

\* the four AttrCoercionContext operations of AnonAttrCtx
\* a context that parses labels
CoerceLabelParsing(value) == Ok(CoercedAttr("Label", value))

coerce_label(value) == Err(Error("CantParseDuringCoerce", value))
coerce_path(value) == Err(Error("CantParseDuringCoerce", value))
coerce_target_pattern(pattern) == Err(Error("CantParseDuringCoerce", pattern))
visit_query_function_literals(query) == Err(Error("CantParseDuringCoerce", query))

\* AttrTypeInner::coerce_item under AnonAttrCtx, by attribute type
coerce_item(typ, x) ==
    CASE typ = "string" ->
            IF x.type = "string" THEN Ok(CoercedAttr("String", x.s))
            ELSE Err(Error("CoercionError", <<x.type>>))
      [] typ = "int" ->
            IF x.type = "int" THEN Ok(CoercedAttr("Int", x.s))
            ELSE Err(Error("CoercionError", <<x.type>>))
      [] typ = "label" ->
            IF x.type = "string" THEN coerce_label(x.s)
            ELSE Err(Error("CoercionError", <<x.type>>))
      [] typ = "source" ->
            IF x.type = "string" THEN coerce_path(x.s)
            ELSE Err(Error("CoercionError", <<x.type>>))
      [] typ = "query" ->
            IF x.type = "string" THEN visit_query_function_literals(x.s)
            ELSE Err(Error("CoercionError", <<x.type>>))
      [] OTHER -> Err(Error("CoercionError", <<x.type>>))

(***************************************************************************)
(* Rules                                                                   *)
(***************************************************************************)
Attribute(coercer, default) == [coercer |-> coercer, default |-> default]
AttrSpec(name, attr) == [name |-> name, attr |-> attr]

\* internal_attrs(): the attributes every rule has
internal_attrs ==
    {"name", "default_target_platform", "target_compatible_with",
     "compatible_with", "exec_compatible_with", "visibility", "tests"}

\* the internal attributes come first in every rule's attribute spec
InternalSpecs ==
    << AttrSpec("name", Attribute("string", None)),
       AttrSpec("visibility", Attribute("string", Some(CoercedAttr("String", <<>>)))) >>

\* rule(impl, attrs = {value: string, extra: string default "d"})
RuleA ==
    [name |-> <<"r", "a">>,
     attr_specs |-> InternalSpecs \o
        << AttrSpec("value", Attribute("string", None)),
           AttrSpec("extra", Attribute("string", Some(CoercedAttr("String", <<"d">>)))) >>]

\* rule(impl, attrs = {dep: dep, n: int default 1})
RuleB ==
    [name |-> <<"r", "b">>,
     attr_specs |-> InternalSpecs \o
        << AttrSpec("dep", Attribute("dep", None)),
           AttrSpec("n", Attribute("int", Some(CoercedAttr("Int", <<"1">>)))) >>]

\* a second rule with the attributes of rule_a
RuleC ==
    [name |-> <<"r", "c">>,
     attr_specs |-> RuleA.attr_specs]

\* rule(impl, attrs = {dep: dep, dep2: configured_dep})
RuleD ==
    [name |-> <<"r", "d">>,
     attr_specs |-> InternalSpecs \o
        << AttrSpec("dep", Attribute("dep", None)),
           AttrSpec("dep2", Attribute("configured_dep", None)) >>]

\* AttributeSpec::attribute(k)
SpecAttribute(rule, k) ==
    LET hits == SelectSeq(rule.attr_specs, LAMBDA a : a.name = k)
    IN  IF Len(hits) = 0 THEN None ELSE Some(hits[1].attr)

(***************************************************************************)
(* OrderedMap<String, ConfiguredAttr>: a sequence of <<key, value>> pairs  *)
(* in insertion order                                                      *)
(***************************************************************************)
OrderedMapContainsKey(m, k) == \E i \in 1..Len(m) : m[i][1] = k

OrderedMapInsert(m, k, v) ==
    IF OrderedMapContainsKey(m, k)
    THEN [i \in 1..Len(m) |-> IF m[i][1] = k THEN <<k, v>> ELSE m[i]]
    ELSE Append(m, <<k, v>>)

OrderedMapGet(m, k) ==
    LET hits == SelectSeq(m, LAMBDA e : e[1] = k)
    IN  IF Len(hits) = 0 THEN None ELSE Some(hits[1][2])

OrderedMapKeys(m) == {m[i][1] : i \in 1..Len(m)}

\* every attribute name of the model, in the order of String's Ord
AttrNameOrder ==
    <<"bogus", "compatible_with", "default_target_platform", "dep", "dep2",
      "exec_compatible_with", "extra", "n", "name", "src",
      "target_compatible_with", "tests", "value", "visibility">>

\* SortedMap::from(OrderedMap): the same pairs, sorted by key
SortedMapFrom(m) ==
    LET keys == SelectSeq(AttrNameOrder, LAMBDA k : OrderedMapContainsKey(m, k))
    IN  [i \in 1..Len(keys) |-> <<keys[i], OrderedMapGet(m, keys[i])[1]>>]

(***************************************************************************)
(* Execution platform of the enclosing analysis scope                      *)
(***************************************************************************)
ExecutionPlatformResolution(platform) == [platform |-> platform]

ExecutionPlatforms ==
    {ExecutionPlatformResolution(Some("linux")), ExecutionPlatformResolution(None)}

\* ExecutionPlatformResolution::cfg(): the platform's configuration, or the
\* unbound execution configuration when no platform was resolved
ExecutionPlatformCfg(ep) ==
    IF ep.platform = None THEN "unbound_exec" ELSE "cfg_for_" \o ep.platform[1]

(***************************************************************************)
(* AnonTarget and AnonTargetKey                                            *)
(***************************************************************************)
\* AnonTarget::new(rule_type, name, attrs, exec_cfg)
AnonTargetNew(rule_type, name, attrs, exec_cfg) ==
    [rule_type |-> rule_type, name |-> name, attrs |-> attrs, exec_cfg |-> exec_cfg]

\* #[derive(Eq, PartialEq)] of AnonTarget: by value, over all four fields
AnonTargetEq(a, b) ==
    /\ a.rule_type = b.rule_type
    /\ a.name = b.name
    /\ a.attrs = b.attrs
    /\ a.exec_cfg = b.exec_cfg

\* AnonTargetKey(Arc<AnonTarget>): addr is the allocation the Arc points to
AnonTargetKey(addr, target) == [addr |-> addr, target |-> target]

\* Arc::ptr_eq in place of the derived equality
KeyEqByAllocation(a, b) == a.addr = b.addr

\* #[derive(Eq, PartialEq)] of AnonTargetKey: Arc<T> compares the pointees
KeyEq(a, b) == AnonTargetEq(a.target, b.target)

\* a stand-in for the 64-bit hasher: small codes of the four fields, summed
HashModulus == 7

RECURSIVE SumLens(_, _)
SumLens(attrs, i) ==
    IF i > Len(attrs) THEN 0
    ELSE i * (Len(attrs[i][2].s) + 1) + SumLens(attrs, i + 1)

\* #[derive(Hash)] of AnonTarget: feeds all four fields to the hasher
AnonTargetHash(t) ==
    ( Len(t.rule_type) + Len(t.name.cell) + 2 * Len(t.name.package)
      + 3 * Len(t.name.target) + SumLens(t.attrs, 1)
      + (IF t.exec_cfg = "unbound_exec" THEN 0 ELSE 5) ) % HashModulus

\* #[derive(Hash)] of AnonTargetKey: Arc<T> hashes the pointee
KeyHash(k) == AnonTargetHash(k.target)

(***************************************************************************)
(* AnonTargetKey::new and its helpers                                      *)
(***************************************************************************)
\* PatternParts: the optional cell alias and the pattern that follows it
PatternParts(cell_alias, kind, package, target) ==
    [cell_alias |-> cell_alias, kind |-> kind, package |-> package, target |-> target]

\* s ends with the sequence t
EndsWith(s, t) ==
    Len(s) >= Len(t) /\ SubSeq(s, Len(s) - Len(t) + 1, Len(s)) = t

\* lex_target_pattern(x, false): cell_alias is what precedes the first "//"
\* and is absent when there is none; the rest is package:target, a
\* recursive pattern ending in "...", or, with neither, an ambiguous one
lex_target_pattern(x) ==
    LET ss == SlashSlashFrom(x, 1)
        cell_alias == IF ss = 0 THEN None ELSE Some(SubSeq(x, 1, ss - 1))
        pattern == IF ss = 0 THEN x ELSE SubSeq(x, ss + 2, Len(x))
        colon == IndexOf(pattern, ":")
        package == SubSeq(pattern, 1, colon - 1)
        target == SubSeq(pattern, colon + 1, Len(pattern))
    IN  IF colon # 0
        THEN IF TargetNameValid(target)
             THEN Ok(PatternParts(cell_alias, "TargetInPackage", package, target))
             ELSE Err(Error("InvalidTargetName", target))
        ELSE IF pattern = <<".", ".", ".">> \/ EndsWith(pattern, <<"/", ".", ".", ".">>)
        THEN Ok(PatternParts(cell_alias, "Recursive",
                             SubSeq(pattern, 1, Len(pattern) - 4), <<>>))
        ELSE IF pattern # <<>>
        THEN Ok(PatternParts(cell_alias, "Ambiguous", pattern, <<>>))
        ELSE Err(Error("UnexpectedFormat", x))

\* PatternDataOrAmbiguous::reject_ambiguity
reject_ambiguity(parts) ==
    IF parts.kind = "Ambiguous" THEN Err(Error("UnexpectedFormat", parts.package))
    ELSE Ok(parts)

\* a parser that takes the cell alias for granted
ParseTargetLabelCellRequired(x) ==
    LET lex == lex_target_pattern(x)
    IN  IF ~lex.ok \/ lex.val[1].cell_alias = None
        THEN Err(Error("NotTargetLabel", x))
        ELSE IF ~reject_ambiguity(lex.val[1]).ok
        THEN Err(reject_ambiguity(lex.val[1]).error[1])
        ELSE IF lex.val[1].kind = "TargetInPackage"
        THEN Ok(TargetLabel(lex.val[1].cell_alias[1], lex.val[1].package,
                            lex.val[1].target))
        ELSE Err(Error("NotTargetLabel", x))

\* the error of the lexer is reported as NotTargetLabel (with_context); the
\* error of reject_ambiguity is returned as it is
parse_target_label(x) ==
    LET lex == lex_target_pattern(x)
    IN  IF ~lex.ok THEN Err(Error("NotTargetLabel", x))
        ELSE IF ~reject_ambiguity(lex.val[1]).ok
        THEN Err(reject_ambiguity(lex.val[1]).error[1])
        ELSE IF lex.val[1].kind = "TargetInPackage"
        THEN Ok(TargetLabel(IF lex.val[1].cell_alias = None THEN <<>>
                            ELSE lex.val[1].cell_alias[1],
                            lex.val[1].package, lex.val[1].target))
        ELSE Err(Error("NotTargetLabel", x))

create_name(rule_name) ==
    IF TargetNameValid(rule_name)
    THEN Ok(TargetLabel(<<"a", "n", "o", "n">>, <<>>, rule_name))
    ELSE Err(Error("InvalidTargetName", rule_name))

coerce_name(x) ==
    IF x.type = "label" THEN Ok(x.label)
    ELSE IF x.type = "string" THEN parse_target_label(x.s)
    ELSE Err(Error("InvalidNameType", <<x.type>>))

\* `a.configure(&ctx)` on the result of coercion
ConfigureCoerced(a) == IF a.ok THEN Configure(a.val[1]) ELSE a

unpack_dep(typ) == typ \in {"dep", "configured_dep"}

\* a coercion that sends every attribute type through coerce_item
CoerceAttrGeneric(attr, x) == ConfigureCoerced(coerce_item(attr.coercer, x))

coerce_attr(attr, x) ==
    IF unpack_dep(attr.coercer)
    THEN IF x.type = "dependency"
         THEN Configure(CoercedAttr("ConfiguredDep", x.s))
         ELSE Err(Error("InvalidDep", <<x.type>>))
    ELSE ConfigureCoerced(coerce_item(attr.coercer, x))

configure_attr(x) == Configure(x)

\* the accumulator of AnonTargetKey::new: name, attrs, and the error of an
\* early return
KeyAcc(name, attrs, error) == [name |-> name, attrs |-> attrs, error |-> error]

\* the first loop of AnonTargetKey::new, over the supplied entries from the
\* i-th on.  OnName, OnAttribute and OnCoerced are the arms of its body,
\* given the results of coerce_name, attrs_spec.attribute and coerce_attr.
RECURSIVE CoerceEntries(_, _, _, _)

OnName(rule, entries, i, acc, n) ==
    IF n.ok
    THEN CoerceEntries(rule, entries, i + 1, KeyAcc(n.val, acc.attrs, acc.error))
    ELSE KeyAcc(acc.name, acc.attrs, n.error)

OnCoerced(rule, entries, i, acc, k, c) ==
    IF c.ok
    THEN CoerceEntries(rule, entries, i + 1,
             KeyAcc(acc.name, OrderedMapInsert(acc.attrs, k, c.val[1]), acc.error))
    ELSE KeyAcc(acc.name, acc.attrs, c.error)

\* a lookup that passes over a supplied attribute the schema lacks
OnAttributeSkipUnknown(rule, entries, i, acc, k, v, attr) ==
    IF attr = None
    THEN CoerceEntries(rule, entries, i + 1, acc)
    ELSE OnCoerced(rule, entries, i, acc, k, coerce_attr(attr[1], v))

OnAttribute(rule, entries, i, acc, k, v, attr) ==
    IF attr = None
    THEN KeyAcc(acc.name, acc.attrs, Some(Error("UnknownAttribute", <<k>>)))
    ELSE OnCoerced(rule, entries, i, acc, k, coerce_attr(attr[1], v))

\* a loop body without the check against internal_attrs
OnEntryNoInternalCheck(rule, entries, i, acc, k, v) ==
    IF k = "name" THEN OnName(rule, entries, i, acc, coerce_name(v))
    ELSE OnAttribute(rule, entries, i, acc, k, v, SpecAttribute(rule, k))

OnEntry(rule, entries, i, acc, k, v) ==
    IF k = "name" THEN OnName(rule, entries, i, acc, coerce_name(v))
    ELSE IF k \in internal_attrs
    THEN KeyAcc(acc.name, acc.attrs, Some(Error("InternalAttribute", <<k>>)))
    ELSE OnAttribute(rule, entries, i, acc, k, v, SpecAttribute(rule, k))

CoerceEntries(rule, entries, i, acc) ==
    IF i > Len(entries) THEN acc
    ELSE OnEntry(rule, entries, i, acc, entries[i][1], entries[i][2])

\* the second loop of AnonTargetKey::new, over the rule's attr_specs from
\* the i-th on.  OnDefault and OnSpec are the arms of its body.
RECURSIVE ApplyDefaults(_, _, _)

OnDefault(rule, i, acc, k, c) ==
    IF c.ok
    THEN ApplyDefaults(rule, i + 1,
             KeyAcc(acc.name, OrderedMapInsert(acc.attrs, k, c.val[1]), acc.error))
    ELSE KeyAcc(acc.name, acc.attrs, c.error)

\* a defaults loop that does not look whether the attribute was supplied
OnSpecOverwrite(rule, i, acc, k, a) ==
    IF k \notin internal_attrs
    THEN IF a.default # None
         THEN OnDefault(rule, i, acc, k, configure_attr(a.default[1]))
         ELSE IF OrderedMapContainsKey(acc.attrs, k)
         THEN ApplyDefaults(rule, i + 1, acc)
         ELSE KeyAcc(acc.name, acc.attrs, Some(Error("MissingAttribute", <<k>>)))
    ELSE ApplyDefaults(rule, i + 1, acc)

OnSpec(rule, i, acc, k, a) ==
    IF ~OrderedMapContainsKey(acc.attrs, k) /\ k \notin internal_attrs
    THEN IF a.default # None
         THEN OnDefault(rule, i, acc, k, configure_attr(a.default[1]))
         ELSE KeyAcc(acc.name, acc.attrs, Some(Error("MissingAttribute", <<k>>)))
    ELSE ApplyDefaults(rule, i + 1, acc)

ApplyDefaults(rule, i, acc) ==
    IF i > Len(rule.attr_specs) THEN acc
    ELSE OnSpec(rule, i, acc, rule.attr_specs[i].name, rule.attr_specs[i].attr)

\* both loops, with the report of a missing attribute put first
CoerceAndDefaultMissingFirst(rule, acc1) ==
    IF ApplyDefaults(rule, 1, KeyAcc(acc1.name, acc1.attrs, None)).error # None
    THEN ApplyDefaults(rule, 1, KeyAcc(acc1.name, acc1.attrs, None))
    ELSE acc1

\* both loops: the second runs unless the first returned early
CoerceAndDefault(rule, acc1) ==
    IF acc1.error # None THEN acc1 ELSE ApplyDefaults(rule, 1, acc1)

\* `match name { None => create_name(..)?, Some(name) => name }`
NameOrCreated(rule, acc) ==
    IF acc.name = None THEN create_name(rule.name) ELSE Ok(acc.name[1])

\* a key that always gets the unbound execution configuration
WrapKeyUnbound(addr, execution_platform, rule, name, attrs) ==
    IF ~name.ok THEN name
    ELSE Ok(AnonTargetKey(addr,
                AnonTargetNew(rule.name, name.val[1], attrs,
                              ExecutionPlatformCfg(ExecutionPlatformResolution(None)))))

\* Ok(Self(Arc::new(AnonTarget::new(rule_type, name, attrs, cfg))))
WrapKey(addr, execution_platform, rule, name, attrs) ==
    IF ~name.ok THEN name
    ELSE Ok(AnonTargetKey(addr,
                AnonTargetNew(rule.name, name.val[1], attrs,
                              ExecutionPlatformCfg(execution_platform))))

\* the tail of AnonTargetKey::new, from the result of the two loops
KeyFromAcc(addr, execution_platform, rule, acc) ==
    IF acc.error # None THEN Err(acc.error[1])
    ELSE WrapKey(addr, execution_platform, rule, NameOrCreated(rule, acc),
                 SortedMapFrom(acc.attrs))

\* the same tail, handing attrs over in insertion order
KeyFromAccNoInto(addr, execution_platform, rule, acc) ==
    IF acc.error # None THEN Err(acc.error[1])
    ELSE WrapKey(addr, execution_platform, rule, NameOrCreated(rule, acc), acc.attrs)

\* AnonTargetKey::new without the conversion of attrs into the sorted map
AnonTargetKeyNewNoInto(addr, execution_platform, rule, attributes) ==
    KeyFromAccNoInto(addr, execution_platform, rule,
        CoerceAndDefault(rule, CoerceEntries(rule, attributes, 1, KeyAcc(None, <<>>, None))))

\* AnonTargetKey::new(execution_platform, rule, attributes); addr names the
\* fresh allocation made by Arc::new
AnonTargetKeyNew(addr, execution_platform, rule, attributes) ==
    KeyFromAcc(addr, execution_platform, rule,
        CoerceAndDefault(rule, CoerceEntries(rule, attributes, 1, KeyAcc(None, <<>>, None))))

(***************************************************************************)
(* The requests made by rule implementations in the registry model         *)
(***************************************************************************)
Request(rule, attributes) == [rule |-> rule, attributes |-> attributes]

\* anon_target(rule_a, {value: "x"})
ReqX == Request(RuleA, << <<"value", StrValue(<<"x">>)>> >>)
\* anon_target(rule_a, {extra: "e", value: "x"})
ReqE == Request(RuleA, << <<"extra", StrValue(<<"e">>)>>, <<"value", StrValue(<<"x">>)>> >>)
\* anon_target(rule_a, {}): `value` is missing
ReqBad == Request(RuleA, <<>>)
\* anon_target(rule_a, {value: "x", bogus: "x"}): rule_a has no `bogus`
ReqUnknown == Request(RuleA, << <<"value", StrValue(<<"x">>)>>, <<"bogus", StrValue(<<"x">>)>> >>)

Requests == {ReqX, ReqE, ReqBad, ReqUnknown}

\* the argument lists of register_many
RequestLists == UNION {[1..n -> Requests] : n \in 0..MaxList}

(***************************************************************************)
(* State                                                                   *)
(***************************************************************************)
VARIABLES
    registry,      \* the scope's AnonTargetsRegistry: execution_platform, entries
    nextPromise,   \* promises created so far; promise p is the p-th created
    ret,           \* what the last registry operation returned
    batch,         \* Option: the registry handed out by get_promises
    pc,            \* position of run_promises on the batch
    shape,         \* run_promises: shape
    targets,       \* run_promises: targets
    values,        \* run_promises: output slots of try_join_all, by index
    bindIdx,       \* run_promises: entries of shape consumed by the bind loop
    bound,         \* per promise: None, or Some(value it was resolved with)
    bindLog,       \* promises in the order StarlarkPromise::resolve bound them
    dice,          \* the engine's computations of this generation, oldest first
    finishLog,     \* indices into dice, in the order the computations finished
    evalCalls,     \* eval_anon_target calls: key and Option<result>
    sites,         \* call sites of AnonTargetKey::new: platform, rule, attributes
    siteKeys,      \* per call site: None, or Some(what AnonTargetKey::new returned)
    analysis       \* run_analysis_impl of the key that owns the scope: position, deps

vars == <<registry, nextPromise, ret, batch, pc, shape, targets, values,
          bindIdx, bound, bindLog, dice, finishLog, evalCalls, sites, siteKeys,
          analysis>>

regVars == <<registry, nextPromise, ret>>
runVars == <<batch, pc, shape, targets, values, bindIdx>>
promiseVars == <<bound, bindLog>>
diceVars == <<dice, finishLog, evalCalls>>
siteVars == <<sites, siteKeys>>

(***************************************************************************)
(* AnonTargetsRegistry                                                     *)
(***************************************************************************)
\* AnonTargetsRegistry::new
AnonTargetsRegistryNew(execution_platform) ==
    [execution_platform |-> execution_platform, entries |-> <<>>]

Left(x) == [tag |-> "Left", keys |-> <<x>>]
Right(xs) == [tag |-> "Right", keys |-> xs]
Entry(promise, xs) == [promise |-> promise, xs |-> xs]

Return(op, r) == [op |-> op, ok |-> r.ok, error |-> r.error]

\* a script is being evaluated: the rule implementation before the first
\* drain, or evaluation resumed by a bind (the last bind included)
Evaluating == pc \in {"idle", "binding", "ok"}

\* Vec::into_try_map over the rules from the i-th on: keys so far, or the
\* first error.  IntoTryMapStep continues with the i-th result r.
RECURSIVE IntoTryMap(_, _, _, _, _)

IntoTryMapStep(promise, execution_platform, rules, i, keys, r) ==
    IF r.ok
    THEN IntoTryMap(promise, execution_platform, rules, i + 1, Append(keys, r.val[1]))
    ELSE r

\* into_try_map that leaves out the pairs that fail to coerce
IntoTryMapSkipFailed(promise, execution_platform, rules, i, keys) ==
    Ok(LET rs == [n \in 1..Len(rules) |->
                    AnonTargetKeyNew(<<promise, n>>, execution_platform,
                                     rules[n].rule, rules[n].attributes)]
           oks == SelectSeq(rs, LAMBDA r : r.ok)
       IN  [n \in 1..Len(oks) |-> oks[n].val[1]])

IntoTryMap(promise, execution_platform, rules, i, keys) ==
    IF i > Len(rules) THEN Ok(keys)
    ELSE IntoTryMapStep(promise, execution_platform, rules, i, keys,
             AnonTargetKeyNew(<<promise, i>>, execution_platform,
                              rules[i].rule, rules[i].attributes))

\* a push that stores an entry without keys when the construction failed
PushEntryAlways(reg, promise, tag, r) ==
    [reg EXCEPT !.entries =
        Append(@, Entry(promise, [tag |-> tag,
                                  keys |-> IF ~r.ok THEN <<>>
                                           ELSE IF tag = "Left" THEN r.val ELSE r.val[1]]))]

\* self.entries.push((promise, xs?)): r is the Result holding the key(s)
PushEntry(reg, promise, tag, r) ==
    IF r.ok
    THEN [reg EXCEPT !.entries =
             Append(@, Entry(promise, [tag |-> tag,
                                       keys |-> IF tag = "Left" THEN r.val ELSE r.val[1]]))]
    ELSE reg

\* a register call that puts its entry in front of the others
RegisteredInFront(op, promise, tag, r) ==
    /\ nextPromise' = promise
    /\ registry' = IF r.ok
                   THEN [registry EXCEPT !.entries =
                            << Entry(promise, [tag |-> tag,
                                               keys |-> IF tag = "Left" THEN r.val
                                                        ELSE r.val[1]]) >> \o @]
                   ELSE registry
    /\ ret' = Return(op, r)

\* the effect of a register call whose key construction gave r
Registered(op, promise, tag, r) ==
    /\ nextPromise' = promise
    /\ registry' = PushEntry(registry, promise, tag, r)
    /\ ret' = Return(op, r)

register_one(q) ==
    /\ Evaluating
    /\ nextPromise < MaxPromises
    /\ Registered("register_one", nextPromise + 1, "Left",
           AnonTargetKeyNew(<<nextPromise + 1, 0>>, registry.execution_platform,
                            q.rule, q.attributes))
    /\ UNCHANGED <<runVars, promiseVars, diceVars, siteVars, analysis>>

register_many(rules) ==
    /\ Evaluating
    /\ nextPromise < MaxPromises
    /\ Registered("register_many", nextPromise + 1, "Right",
           IntoTryMap(nextPromise + 1, registry.execution_platform, rules, 1, <<>>))
    /\ UNCHANGED <<runVars, promiseVars, diceVars, siteVars, analysis>>

\* a drain that hands out a copy and leaves the entries where they are
GetPromisesCopy ==
    /\ pc = "idle"
    /\ batch = None
    /\ IF registry.entries = <<>>
       THEN /\ ret' = [op |-> "get_promises", ok |-> FALSE, error |-> None]
            /\ UNCHANGED <<registry, batch>>
       ELSE /\ registry' = registry
            /\ batch' = Some(registry)
            /\ ret' = [op |-> "get_promises", ok |-> TRUE, error |-> None]
    /\ UNCHANGED <<nextPromise, pc, shape, targets, values, bindIdx,
                   promiseVars, diceVars, siteVars, analysis>>

\* a drain that hands out the newest entry only
GetPromisesNewestOnly ==
    /\ pc = "idle"
    /\ batch = None
    /\ IF registry.entries = <<>>
       THEN /\ ret' = [op |-> "get_promises", ok |-> FALSE, error |-> None]
            /\ UNCHANGED <<registry, batch>>
       ELSE /\ registry' = [registry EXCEPT
                               !.entries = SubSeq(@, 1, Len(@) - 1)]
            /\ batch' = Some([registry EXCEPT
                                 !.entries = << @[Len(@)] >>])
            /\ ret' = [op |-> "get_promises", ok |-> TRUE, error |-> None]
    /\ UNCHANGED <<nextPromise, pc, shape, targets, values, bindIdx,
                   promiseVars, diceVars, siteVars, analysis>>

\* get_promises, called by the scope between two run_promises
get_promises ==
    /\ pc = "idle"
    /\ batch = None
    /\ IF registry.entries = <<>>
       THEN /\ ret' = [op |-> "get_promises", ok |-> FALSE, error |-> None]
            /\ UNCHANGED <<registry, batch>>
       ELSE LET new == AnonTargetsRegistryNew(registry.execution_platform)
            IN  \* mem::swap(&mut new, self); Some(new)
                /\ registry' = new
                /\ batch' = Some(registry)
                /\ ret' = [op |-> "get_promises", ok |-> TRUE, error |-> None]
    /\ UNCHANGED <<nextPromise, pc, shape, targets, values, bindIdx,
                   promiseVars, diceVars, siteVars, analysis>>

\* an assert that lets every registry pass
AssertNoPromisesAlwaysOk ==
    /\ pc = "idle"
    /\ ret' = [op |-> "assert_no_promises", ok |-> TRUE, error |-> None]
    /\ UNCHANGED <<registry, nextPromise, runVars, promiseVars, diceVars, siteVars, analysis>>

\* assert_no_promises(&self), called by a scope at a point past which it
\* accepts no registration
assert_no_promises ==
    /\ pc = "idle"
    /\ ret' = IF registry.entries = <<>>
              THEN [op |-> "assert_no_promises", ok |-> TRUE, error |-> None]
              ELSE [op |-> "assert_no_promises", ok |-> FALSE,
                    error |-> Some(Error("AssertNoPromisesFailed", <<>>))]
    /\ UNCHANGED <<registry, nextPromise, runVars, promiseVars, diceVars, siteVars, analysis>>

(***************************************************************************)
(* The incremental engine and AnonTargetKey::resolve                       *)
(***************************************************************************)
DiceEntry(key, state, invoked) == [key |-> key, state |-> state, invoked |-> invoked]

\* index of the computation the engine holds for a key equal to k, else 0
RECURSIVE DiceLookupFrom(_, _, _)
DiceLookupFrom(d, k, j) ==
    IF j > Len(d) THEN 0
    ELSE IF KeyEq(d[j].key, k) THEN j
    ELSE DiceLookupFrom(d, k, j + 1)

DiceLookup(d, k) == DiceLookupFrom(d, k, 1)

\* DiceComputations::compute(key): joins the computation of an equal key if
\* the generation has one, else starts Key::compute
DiceCompute(d, k) ==
    IF DiceLookup(d, k) # 0 THEN d
    ELSE Append(d, DiceEntry(k, "running", FALSE))

\* an equality of memoized values that compares them
EqualityByValue(a, b) == a = b

\* Key::equality of AnonTargetKey, over two values of SharedResult<AnalysisResult>
equality(a, b) == FALSE

\* resolve that runs run_analysis itself instead of going through the engine
ResolveUnmemoized(d, k) == Append(d, DiceEntry(k, "running", FALSE))

\* AnonTargetKey::resolve, up to its await: dice.compute(self)
resolve(d, k) == DiceCompute(d, k)

\* AnalysisResult::new(provider_collection, deferred, None) of a finished
\* computation; computed_by tells the executions of run_analysis apart
AnalysisResult(e) ==
    [provider_collection |->
        [frozen |-> TRUE, target |-> e.key.target, computed_by |-> e.key.addr]]

\* a resolve that refuses, with an error, to wait for the computation of the
\* key whose analysis is asking
ResolveResultGuarded(d, k) ==
    LET j == DiceLookup(d, k)
    IN  IF j = 0 THEN None
        ELSE IF d[j].state = "running"
        THEN IF analysis.key # None /\ KeyEq(k, analysis.key[1])
             THEN Some(Err(Error("Cycle", <<>>)))
             ELSE None
        ELSE IF d[j].state = "ok" THEN Some(Ok(AnalysisResult(d[j])))
        ELSE Some(Err(Error("AnalysisFailed", <<>>)))

\* what `dice.compute(self).await??` yields for k: None while it is pending
ResolveResult(d, k) ==
    LET j == DiceLookup(d, k)
    IN  IF j = 0 \/ d[j].state = "running" THEN None
        ELSE IF d[j].state = "ok" THEN Some(Ok(AnalysisResult(d[j])))
        ELSE Some(Err(Error("AnalysisFailed", <<>>)))

\* Key::compute -> run_analysis finishes: with a result, or with an error
\* raised before (dep_err) or by (impl_err) the rule implementation
ComputeOutcomes == {"ok", "dep_err", "impl_err"}

ComputeFinish(j, outcome) ==
    /\ j \in 1..Len(dice)
    /\ dice[j].state = "running"
    /\ dice' = [dice EXCEPT ![j] =
                  DiceEntry(@.key,
                            IF outcome = "ok" THEN "ok" ELSE "err",
                            outcome # "dep_err")]
    /\ finishLog' = Append(finishLog, j)
    /\ UNCHANGED <<regVars, runVars, promiseVars, evalCalls, siteVars, analysis>>

\* eval_anon_target(dice, target), up to its await.  Its callers hold the
\* Arc that run_analysis put into BaseDeferredKey::AnonTarget, so target is
\* the key of a computation that has started.
EvalCall(j) ==
    /\ Len(evalCalls) < MaxEvalCalls
    /\ j \in 1..Len(dice)
    /\ LET k == dice[j].key
       IN  /\ dice' = resolve(dice, k)
           /\ evalCalls' = Append(evalCalls, [key |-> k, result |-> None])
    /\ UNCHANGED <<regVars, runVars, promiseVars, finishLog, siteVars, analysis>>

\* eval_anon_target returns
EvalReturn(c) ==
    /\ c \in 1..Len(evalCalls)
    /\ evalCalls[c].result = None
    /\ ResolveResult(dice, evalCalls[c].key) # None
    /\ evalCalls' = [evalCalls EXCEPT ![c].result = ResolveResult(dice, evalCalls[c].key)]
    /\ UNCHANGED <<regVars, runVars, promiseVars, dice, finishLog, siteVars, analysis>>

(***************************************************************************)
(* AnonTargetsRegistry::run_promises                                       *)
(***************************************************************************)
ShapeEntry(promise, tag, lo, hi) == [promise |-> promise, tag |-> tag, lo |-> lo, hi |-> hi]

\* the first loop of run_promises over entries from the i-th on; indices
\* are 0-based as in the code
RECURSIVE FlattenFrom(_, _, _, _)
FlattenFrom(entries, i, sh, tg) ==
    IF i > Len(entries) THEN [shape |-> sh, targets |-> tg]
    ELSE LET promise == entries[i].promise
             xs == entries[i].xs
         IN  IF xs.tag = "Left"
             THEN FlattenFrom(entries, i + 1,
                      Append(sh, ShapeEntry(promise, "Left", Len(sh), Len(sh))),
                      Append(tg, xs.keys[1]))
             ELSE FlattenFrom(entries, i + 1,
                      Append(sh, ShapeEntry(promise, "Right", Len(sh), Len(sh) + Len(xs.keys))),
                      tg \o xs.keys)

\* a flatten that makes one shape entry per key instead of one per entry
RECURSIVE FlattenPerKeyFrom(_, _, _, _)
FlattenPerKeyFrom(entries, i, sh, tg) ==
    IF i > Len(entries) THEN [shape |-> sh, targets |-> tg]
    ELSE FlattenPerKeyFrom(entries, i + 1,
             sh \o [n \in 1..Len(entries[i].xs.keys) |->
                       ShapeEntry(entries[i].promise, "Left", Len(tg) + n - 1, Len(tg) + n - 1)],
             tg \o entries[i].xs.keys)

FlattenPerKey(entries) == FlattenPerKeyFrom(entries, 1, <<>>, <<>>)

\* a flatten whose shape comes out last entry first
ReverseSeq(sq) == [n \in 1..Len(sq) |-> sq[Len(sq) + 1 - n]]

FlattenReversed(entries) ==
    [shape |-> ReverseSeq(FlattenFrom(entries, 1, <<>>, <<>>).shape),
     targets |-> FlattenFrom(entries, 1, <<>>, <<>>).targets]

Flatten(entries) == FlattenFrom(entries, 1, <<>>, <<>>)

\* try_join_all polls every target.resolve(dice) once, in order
RECURSIVE ResolveAll(_, _, _)
ResolveAll(d, tg, i) ==
    IF i > Len(tg) THEN d ELSE ResolveAll(resolve(d, tg[i]), tg, i + 1)

RunError(e) == [op |-> "run_promises", ok |-> FALSE, error |-> Some(e)]

\* run_promises from its entry to the await of try_join_all
RunPromisesStart ==
    /\ pc = "idle"
    /\ batch # None
    /\ LET f == Flatten(batch[1].entries)
       IN  /\ shape' = f.shape
           /\ targets' = f.targets
           /\ values' = [i \in 1..Len(f.targets) |-> None]
           /\ dice' = ResolveAll(dice, f.targets, 1)
           /\ pc' = IF Len(f.targets) = 0 THEN "binding" ELSE "resolving"
    /\ bindIdx' = 0
    /\ UNCHANGED <<regVars, batch, promiseVars, finishLog, evalCalls, siteVars, analysis>>

\* a join that waits for every future and goes on whatever they returned
JoinAllNext(r, filled) == IF filled THEN "binding" ELSE "resolving"

\* a join that goes on as soon as one future has succeeded
JoinFirstNext(r, filled) == IF ~r.ok THEN "err" ELSE "binding"

\* try_join_all fails as soon as one future fails
TryJoinNext(r, filled) ==
    IF ~r.ok THEN "err" ELSE IF filled THEN "binding" ELSE "resolving"

\* the computation held at dice[j] has finished and try_join_all is polled:
\* every future awaiting it completes, each into the slot of its own index
ResolveReturn(j) ==
    /\ pc = "resolving"
    /\ j \in 1..Len(dice)
    /\ ResolveResult(dice, dice[j].key) # None
    /\ LET woken == {i \in 1..Len(targets) :
                        values[i] = None /\ DiceLookup(dice, targets[i]) = j}
           r == ResolveResult(dice, dice[j].key)[1]
           filled == \A n \in 1..Len(values) : n \notin woken => values[n] # None
       IN  /\ woken # {}
           /\ values' = IF r.ok
                        THEN [i \in 1..Len(values) |->
                                 IF i \in woken THEN r.val ELSE values[i]]
                        ELSE values
           /\ pc' = TryJoinNext(r, filled)
           /\ ret' = IF pc' = "err" THEN RunError(r.error[1]) ELSE ret
    /\ UNCHANGED <<registry, nextPromise, batch, shape, targets, bindIdx,
                   promiseVars, diceVars, siteVars, analysis>>

\* FrozenValue::owned_value(eval.frozen_heap())
OwnedValue(pcv) ==
    [type |-> "providers", target |-> pcv.target, computed_by |-> pcv.computed_by]

\* eval.heap().alloc_list(&xs)
AllocList(xs) == [type |-> "list", items |-> xs]

\* the indices of a range taken with its end included (lo..=hi)
ShapeIndicesInclusive(e) ==
    IF e.tag = "Left" THEN <<e.lo>>
    ELSE [n \in 1..(e.hi - e.lo + 1) |-> e.lo + n - 1]

\* the 0-based indices of values an entry of shape reads
ShapeIndices(e) ==
    IF e.tag = "Left" THEN <<e.lo>>
    ELSE [n \in 1..(e.hi - e.lo) |-> e.lo + n - 1]

\* a bind that leaves the promise unbound when the evaluation it resumes fails
BindNextUnboundOnFailure(evalOk) ==
    /\ pc = "binding"
    /\ bindIdx < Len(shape)
    /\ LET e == shape[bindIdx + 1]
           is == ShapeIndices(e)
           inBounds == \A n \in 1..Len(is) : is[n] < Len(values)
           item(i) == OwnedValue(values[i + 1][1].provider_collection)
           val == IF e.tag = "Left" THEN item(e.lo)
                  ELSE AllocList([n \in 1..Len(is) |-> item(is[n])])
       IN  IF ~inBounds
           THEN /\ pc' = "panic"
                /\ ret' = RunError(Error("IndexOutOfBounds", <<>>))
                /\ UNCHANGED <<bound, bindLog, bindIdx>>
           ELSE IF bound[e.promise] # None \/ ~evalOk
           THEN /\ pc' = "err"
                /\ ret' = RunError(Error(IF evalOk THEN "CannotResolveTwice" ELSE "EvalFailed", <<>>))
                /\ UNCHANGED <<bound, bindLog, bindIdx>>
           ELSE /\ bound' = [bound EXCEPT ![e.promise] = Some(val)]
                /\ bindLog' = Append(bindLog, e.promise)
                /\ bindIdx' = bindIdx + 1
                /\ pc' = IF bindIdx + 1 = Len(shape) THEN "ok" ELSE "binding"
                /\ ret' = ret
    /\ UNCHANGED <<registry, nextPromise, batch, shape, targets, values, diceVars, siteVars, analysis>>

\* one iteration of the second loop of run_promises; evalOk tells whether
\* the evaluation resumed by promise.resolve succeeds
BindNext(evalOk) ==
    /\ pc = "binding"
    /\ bindIdx < Len(shape)
    /\ LET e == shape[bindIdx + 1]
           is == ShapeIndices(e)
           inBounds == \A n \in 1..Len(is) : is[n] < Len(values)
           item(i) == OwnedValue(values[i + 1][1].provider_collection)
           val == IF e.tag = "Left" THEN item(e.lo)
                  ELSE AllocList([n \in 1..Len(is) |-> item(is[n])])
       IN  IF ~inBounds
           THEN \* values[i] panics
                /\ pc' = "panic"
                /\ ret' = RunError(Error("IndexOutOfBounds", <<>>))
                /\ UNCHANGED <<bound, bindLog, bindIdx>>
           ELSE IF bound[e.promise] # None
           THEN \* StarlarkPromise::resolve refuses a resolved promise
                /\ pc' = "err"
                /\ ret' = RunError(Error("CannotResolveTwice", <<>>))
                /\ UNCHANGED <<bound, bindLog, bindIdx>>
           ELSE /\ bound' = [bound EXCEPT ![e.promise] = Some(val)]
                /\ bindLog' = Append(bindLog, e.promise)
                /\ bindIdx' = bindIdx + 1
                /\ pc' = IF ~evalOk THEN "err"
                         ELSE IF bindIdx + 1 = Len(shape) THEN "ok"
                         ELSE "binding"
                /\ ret' = IF ~evalOk THEN RunError(Error("EvalFailed", <<>>)) ELSE ret
    /\ UNCHANGED <<registry, nextPromise, batch, shape, targets, values, diceVars, siteVars, analysis>>

\* run_promises returns Ok(()) and the drained registry is dropped
RunPromisesReturn ==
    /\ pc = "ok"
    /\ pc' = "idle"
    /\ batch' = None
    /\ shape' = <<>>
    /\ targets' = <<>>
    /\ values' = <<>>
    /\ bindIdx' = 0
    /\ ret' = [op |-> "run_promises", ok |-> TRUE, error |-> None]
    /\ UNCHANGED <<registry, nextPromise, promiseVars, diceVars, siteVars, analysis>>

(***************************************************************************)
(* Specification of one analysis scope                                     *)
(***************************************************************************)
ScopeInit ==
    /\ \E ep \in ExecutionPlatforms : registry = AnonTargetsRegistryNew(ep)
    /\ nextPromise = 0
    /\ ret = [op |-> "new", ok |-> TRUE, error |-> None]
    /\ batch = None
    /\ pc = "idle"
    /\ shape = <<>>
    /\ targets = <<>>
    /\ values = <<>>
    /\ bindIdx = 0
    /\ bound = [p \in 1..MaxPromises |-> None]
    /\ bindLog = <<>>
    /\ dice = <<>>
    /\ finishLog = <<>>
    /\ evalCalls = <<>>

\* no run_analysis_impl is followed: the scope is driven through its API
NoAnalysis ==
    [pc |-> "none", key |-> None, deps |-> <<>>, resolved |-> FALSE,
     invoked |-> FALSE, frozen |-> FALSE]

Init ==
    /\ ScopeInit
    /\ sites = <<>>
    /\ siteKeys = <<>>
    /\ analysis = NoAnalysis

\* the steps of the scope and of the engine's computations
ScopeNext ==
    \/ \E q \in Requests : register_one(q)
    \/ \E rules \in RequestLists : register_many(rules)
    \/ get_promises
    \/ assert_no_promises
    \/ RunPromisesStart
    \/ \E j \in 1..Len(dice) : ResolveReturn(j)
    \/ \E evalOk \in BOOLEAN : BindNext(evalOk)
    \/ RunPromisesReturn
    \/ \E j \in 1..Len(dice), outcome \in ComputeOutcomes : ComputeFinish(j, outcome)

Next == ScopeNext

Spec == Init /\ [][Next]_vars

(***************************************************************************)
(* Specification of a scope next to other callers of eval_anon_target      *)
(***************************************************************************)
DiceNext ==
    \/ \E q \in Requests : nextPromise < MaxDicePromises /\ register_one(q)
    \/ \E rules \in RequestLists : nextPromise < MaxDicePromises /\ register_many(rules)
    \/ get_promises
    \/ assert_no_promises
    \/ RunPromisesStart
    \/ \E j \in 1..Len(dice) : ResolveReturn(j)
    \/ \E evalOk \in BOOLEAN : BindNext(evalOk)
    \/ RunPromisesReturn
    \/ \E j \in 1..Len(dice), outcome \in ComputeOutcomes : ComputeFinish(j, outcome)
    \/ \E j \in 1..Len(dice) : EvalCall(j)
    \/ \E c \in 1..Len(evalCalls) : EvalReturn(c)

SpecDice == Init /\ [][DiceNext]_vars

(***************************************************************************)
(* Specification of AnonTargetKey::new at two unrelated call sites, whose  *)
(* keys are then resolved in one generation of the engine                  *)
(***************************************************************************)
Site(platform, rule, attributes) ==
    [platform |-> platform, rule |-> rule, attributes |-> attributes]

FooBar == <<"/", "/", "f", ":", "b">>

\* the attribute dicts handed to anon_target at the call sites
AttrMappings ==
    { <<>>,
      << <<"value", StrValue(<<"x">>)>> >>,
      << <<"value", StrValue(<<"y">>)>> >>,
      << <<"value", StrValue(<<"x">>)>>, <<"extra", StrValue(<<"e">>)>> >>,
      << <<"extra", StrValue(<<"e">>)>>, <<"value", StrValue(<<"x">>)>> >>,
      << <<"value", StrValue(<<"x">>)>>, <<"extra", StrValue(<<"d">>)>> >>,
      << <<"name", StrValue(FooBar)>>, <<"value", StrValue(<<"x">>)>> >>,
      << <<"value", StrValue(<<"x">>)>>, <<"name", StrValue(FooBar)>> >>,
      << <<"value", StrValue(<<"x">>)>>,
         <<"name", LabelValue(TargetLabel(<<>>, <<"f">>, <<"b">>))>> >>,
      << <<"value", StrValue(<<"x">>)>>, <<"bogus", StrValue(<<"x">>)>> >>,
      << <<"value", IntValue(<<"1">>)>>, <<"extra", StrValue(<<"e">>)>> >> }

SiteInputs ==
    {Site(ep, rule, attributes) :
        ep \in ExecutionPlatforms, rule \in {RuleA, RuleC}, attributes \in AttrMappings}

\* the allocation made at call site i
SiteAddr(i) == <<0, i>>

\* call site i runs AnonTargetKey::new
NewKeyAt(i) ==
    /\ i \in 1..Len(sites)
    /\ siteKeys[i] = None
    /\ siteKeys' = [siteKeys EXCEPT ![i] =
            Some(AnonTargetKeyNew(SiteAddr(i), sites[i].platform, sites[i].rule,
                                  sites[i].attributes))]
    /\ UNCHANGED <<regVars, runVars, promiseVars, diceVars, sites, analysis>>

\* the key built at call site i is resolved
ResolveSite(i) ==
    /\ i \in 1..Len(sites)
    /\ siteKeys[i] # None
    /\ siteKeys[i][1].ok
    /\ \A c \in 1..Len(evalCalls) : evalCalls[c].key.addr # SiteAddr(i)
    /\ dice' = resolve(dice, siteKeys[i][1].val[1])
    /\ evalCalls' = Append(evalCalls, [key |-> siteKeys[i][1].val[1], result |-> None])
    /\ UNCHANGED <<regVars, runVars, promiseVars, finishLog, siteVars, analysis>>

KeyInit ==
    /\ registry = AnonTargetsRegistryNew(ExecutionPlatformResolution(None))
    /\ nextPromise = 0
    /\ ret = [op |-> "new", ok |-> TRUE, error |-> None]
    /\ batch = None
    /\ pc = "idle"
    /\ shape = <<>>
    /\ targets = <<>>
    /\ values = <<>>
    /\ bindIdx = 0
    /\ bound = [p \in 1..MaxPromises |-> None]
    /\ bindLog = <<>>
    /\ dice = <<>>
    /\ finishLog = <<>>
    /\ evalCalls = <<>>
    /\ sites \in [1..2 -> SiteInputs]
    /\ siteKeys = <<None, None>>
    /\ analysis = NoAnalysis

KeyNext ==
    \/ \E i \in 1..2 : NewKeyAt(i)
    \/ \E i \in 1..2 : ResolveSite(i)

SpecKey == KeyInit /\ [][KeyNext]_vars

(***************************************************************************)
(* Specification of AnonTargetKey::new as a function of its arguments      *)
(***************************************************************************)
\* entries of the attributes dict of one call
MaxAttrs == 2

AttrNames == {"name", "value", "extra", "visibility", "bogus", "dep", "dep2", "n"}

AttrValues ==
    {StrValue(<<"x">>), StrValue(FooBar), StrValue(<<"f">>), StrValue(<<"f", ":">>),
     IntValue(<<"1">>),
     DepValue(<<"p">>), LabelValue(TargetLabel(<<>>, <<"f">>, <<"b">>))}

\* the dicts of at most MaxAttrs entries, in every order of writing
Dicts ==
    {d \in UNION {[1..n -> AttrNames \X AttrValues] : n \in 0..MaxAttrs} :
        \A a, b \in 1..Len(d) : d[a][1] = d[b][1] => a = b}

NewInputs ==
    {Site(ep, rule, attributes) :
        ep \in ExecutionPlatforms, rule \in {RuleA, RuleB, RuleD}, attributes \in Dicts}

NewInit ==
    /\ registry = AnonTargetsRegistryNew(ExecutionPlatformResolution(None))
    /\ nextPromise = 0
    /\ ret = [op |-> "new", ok |-> TRUE, error |-> None]
    /\ batch = None
    /\ pc = "idle"
    /\ shape = <<>>
    /\ targets = <<>>
    /\ values = <<>>
    /\ bindIdx = 0
    /\ bound = [p \in 1..MaxPromises |-> None]
    /\ bindLog = <<>>
    /\ dice = <<>>
    /\ finishLog = <<>>
    /\ evalCalls = <<>>
    /\ sites \in [1..1 -> NewInputs]
    /\ siteKeys = <<None>>
    /\ analysis = NoAnalysis

NewNext == \E i \in 1..Len(sites) : NewKeyAt(i)

SpecNew == NewInit /\ [][NewNext]_vars

(***************************************************************************)
(* Specification of the string functions: parse_target_label and the       *)
(* coercion context of anonymous targets, applied to one string            *)
(***************************************************************************)
MaxLabelLen == 7

\* the strings over a letter and the three separators of a pattern
Strings == UNION {[1..n -> {"c", "/", ":", "."}] : n \in 0..MaxLabelLen}

StringInit ==
    /\ registry = AnonTargetsRegistryNew(ExecutionPlatformResolution(None))
    /\ nextPromise = 0
    /\ ret = [op |-> "new", ok |-> TRUE, error |-> None]
    /\ batch = None
    /\ pc = "idle"
    /\ shape = <<>>
    /\ targets = <<>>
    /\ values = <<>>
    /\ bindIdx = 0
    /\ bound = [p \in 1..MaxPromises |-> None]
    /\ bindLog = <<>>
    /\ dice = <<>>
    /\ finishLog = <<>>
    /\ evalCalls = <<>>
    /\ sites \in [1..1 -> Strings]
    /\ siteKeys = <<None>>
    /\ analysis = NoAnalysis

\* the function named op returned res for the string of the call site
StringCall(op, res) ==
    /\ siteKeys[1] = None
    /\ siteKeys' = <<Some(res)>>
    /\ ret' = [op |-> op, ok |-> res.ok, error |-> res.error]
    /\ UNCHANGED <<registry, nextPromise, batch, runVars, promiseVars, diceVars,
                   sites, analysis>>

ParseTargetLabel == StringCall("parse_target_label", parse_target_label(sites[1]))

CoerceLabel == StringCall("coerce_label", coerce_label(sites[1]))

CoercePath == StringCall("coerce_path", coerce_path(sites[1]))

CoerceTargetPattern ==
    StringCall("coerce_target_pattern", coerce_target_pattern(sites[1]))

VisitQueryFunctionLiterals ==
    StringCall("visit_query_function_literals", visit_query_function_literals(sites[1]))

\* coerce_attr of the string for an attribute of type typ, one of the types
\* whose coercion of a string goes through the context
CoerceAttrString(typ) ==
    StringCall(typ, coerce_attr(Attribute(typ, None), StrValue(sites[1])))

StringNext ==
    \/ ParseTargetLabel
    \/ CoerceLabel
    \/ CoercePath
    \/ CoerceTargetPattern
    \/ VisitQueryFunctionLiterals
    \/ \E typ \in {"label", "source", "query"} : CoerceAttrString(typ)

SpecString == StringInit /\ [][StringNext]_vars

(***************************************************************************)
(* FileName and FileNameBuf (fs/paths/file_name.rs), and the specification *)
(* of their checked constructors applied to one string                     *)
(***************************************************************************)
\* a verification that lets a backslash pass
VerifyFileNameForwardSlashOnly(file_name) ==
    IF file_name = <<>> THEN Err(Error("Empty", <<>>))
    ELSE IF file_name = <<".">> THEN Err(Error("Dot", <<>>))
    ELSE IF file_name = <<".", ".">> THEN Err(Error("DotDot", <<>>))
    ELSE IF IndexOf(file_name, "/") # 0 THEN Err(Error("Slashes", file_name))
    ELSE Ok(<<>>)

verify_file_name(file_name) ==
    IF file_name = <<>> THEN Err(Error("Empty", <<>>))
    ELSE IF file_name = <<".">> THEN Err(Error("Dot", <<>>))
    ELSE IF file_name = <<".", ".">> THEN Err(Error("DotDot", <<>>))
    ELSE IF IndexOf(file_name, "/") # 0 \/ IndexOf(file_name, "\\") # 0
    THEN Err(Error("Slashes", file_name))
    ELSE Ok(<<>>)

\* FileName::new(s): verify_file_name(s)?; Ok(Self::unchecked_new(s))
FileNameNew(s) ==
    IF ~verify_file_name(s).ok THEN verify_file_name(s)
    ELSE Ok([type |-> "FileName", str |-> s])

\* FileNameBuf::try_from(value): verify_file_name(value)?; Ok(FileNameBuf(value.into()))
FileNameBufTryFrom(value) ==
    IF ~verify_file_name(value).ok THEN verify_file_name(value)
    ELSE Ok([type |-> "FileNameBuf", str |-> value])

MaxNameLen == 4

\* the strings over a letter, the dot, the two slashes and the NUL character
FileNameStrings == UNION {[1..n -> {"x", ".", "/", "\\", "NUL"}] : n \in 0..MaxNameLen}

FileNameInit ==
    /\ registry = AnonTargetsRegistryNew(ExecutionPlatformResolution(None))
    /\ nextPromise = 0
    /\ ret = [op |-> "new", ok |-> TRUE, error |-> None]
    /\ batch = None
    /\ pc = "idle"
    /\ shape = <<>>
    /\ targets = <<>>
    /\ values = <<>>
    /\ bindIdx = 0
    /\ bound = [p \in 1..MaxPromises |-> None]
    /\ bindLog = <<>>
    /\ dice = <<>>
    /\ finishLog = <<>>
    /\ evalCalls = <<>>
    /\ sites \in [1..1 -> FileNameStrings]
    /\ siteKeys = <<None>>
    /\ analysis = NoAnalysis

FileNameNext ==
    \/ StringCall("FileName::new", FileNameNew(sites[1]))
    \/ StringCall("FileNameBuf::try_from", FileNameBufTryFrom(sites[1]))

SpecFileName == FileNameInit /\ [][FileNameNext]_vars

(***************************************************************************)
(* Specification of run_analysis_impl for one key: the analysis scope of   *)
(* an anonymous target, from get_rule_impl to the AnalysisResult           *)
(***************************************************************************)
Linux == ExecutionPlatformResolution(Some("linux"))

\* anon_target(rule_d, {dep: <dependency p>, dep2: <dependency q>})
ReqDeps ==
    Request(RuleD, << <<"dep", DepValue(<<"p">>)>>, <<"dep2", DepValue(<<"q">>)>> >>)

\* the requests that built the key under analysis
AnalysisRequests == {ReqX, ReqDeps}

\* the requests its rule implementation makes; a request that fails makes
\* the evaluation that made it fail, which InvokeReturn and BindNext cover
ImplRequests == {ReqX, ReqE}

ImplRequestLists == UNION {[1..n -> ImplRequests] : n \in 0..MaxList}

\* AnonTargetKey::deps: the target of every ConfiguredDep among the
\* attribute values, in the order of attrs
deps(k) ==
    LET ds == SelectSeq(k.target.attrs, LAMBDA e : e[2].lit = "ConfiguredDep")
    IN  [n \in 1..Len(ds) |-> ds[n][2].s]

Dep(label, state) == [label |-> label, state |-> state]

\* the computation the engine runs for the key under analysis
Own == DiceLookup(dice, analysis.key[1])

\* `?`: run_analysis_impl returns the error and Key::compute stores it
AnalysisFails ==
    /\ analysis' = [analysis EXCEPT !.pc = "err"]
    /\ dice' = [dice EXCEPT ![Own] = DiceEntry(@.key, "err", analysis.invoked)]
    /\ finishLog' = Append(finishLog, Own)

\* a fallible step of run_analysis_impl: on to `next`, or out with the error
AnalysisStep(ok, next) ==
    IF ok
    THEN /\ analysis' = next
         /\ UNCHANGED <<dice, finishLog>>
    ELSE AnalysisFails

\* get_rule_impl(dice, rule_type).await?, then the dep futures are collected
get_rule_impl(ok) ==
    /\ analysis.pc = "get_rule_impl"
    /\ AnalysisStep(ok,
          [analysis EXCEPT
              !.pc = "deps",
              !.deps = [n \in 1..Len(deps(analysis.key[1])) |->
                           Dep(deps(analysis.key[1])[n], "pending")]])
    /\ UNCHANGED <<regVars, runVars, promiseVars, evalCalls, siteVars>>

\* dice.get_analysis_result(dep).and_then(require_compatible) completes
DepOutcomes == {"ok", "failed", "incompatible"}

get_analysis_result(d, outcome) ==
    /\ analysis.pc = "deps"
    /\ d \in 1..Len(analysis.deps)
    /\ analysis.deps[d].state = "pending"
    /\ analysis' = [analysis EXCEPT !.deps[d].state = outcome]
    /\ UNCHANGED <<regVars, runVars, promiseVars, diceVars, siteVars>>

\* a join that returns the first failure it sees
FailFastJoin(ds) ==
    IF \E n \in 1..Len(ds) : ds[n].state \in {"failed", "incompatible"} THEN "err"
    ELSE IF \E n \in 1..Len(ds) : ds[n].state = "pending" THEN "pending"
    ELSE "ok"

\* keep_going::try_join_all: waits for every future, then fails if one failed
KeepGoingJoin(ds) ==
    IF \E n \in 1..Len(ds) : ds[n].state = "pending" THEN "pending"
    ELSE IF \E n \in 1..Len(ds) : ds[n].state \in {"failed", "incompatible"} THEN "err"
    ELSE "ok"

\* the dep join of run_analysis_impl with a fail-fast join in it
DepAnalysisResultsFailFast ==
    /\ analysis.pc = "deps"
    /\ FailFastJoin(analysis.deps) # "pending"
    /\ AnalysisStep(FailFastJoin(analysis.deps) = "ok", [analysis EXCEPT !.pc = "attrs"])
    /\ UNCHANGED <<regVars, runVars, promiseVars, evalCalls, siteVars>>

\* let dep_analysis_results = keep_going::try_join_all(...).await?
DepAnalysisResults ==
    /\ analysis.pc = "deps"
    /\ KeepGoingJoin(analysis.deps) # "pending"
    /\ AnalysisStep(KeepGoingJoin(analysis.deps) = "ok", [analysis EXCEPT !.pc = "attrs"])
    /\ UNCHANGED <<regVars, runVars, promiseVars, evalCalls, siteVars>>

\* a loop over the attrs that drops the error of resolve_single
ResolveAttrsLenient(ok) ==
    /\ analysis.pc = "attrs"
    /\ AnalysisStep(TRUE, [analysis EXCEPT !.pc = "platform", !.resolved = ok])
    /\ UNCHANGED <<regVars, runVars, promiseVars, evalCalls, siteVars>>

\* attr.resolve_single(&resolution_ctx)? over the attrs
resolve_attrs(ok) ==
    /\ analysis.pc = "attrs"
    /\ AnalysisStep(ok, [analysis EXCEPT !.pc = "platform", !.resolved = TRUE])
    /\ UNCHANGED <<regVars, runVars, promiseVars, evalCalls, siteVars>>

\* find_execution_platform_by_configuration(..).await?, the registry and the
\* context are made, and rule_impl.invoke is entered
find_execution_platform(ok) ==
    /\ analysis.pc = "platform"
    /\ AnalysisStep(ok, [analysis EXCEPT !.pc = "invoke", !.invoked = TRUE])
    /\ UNCHANGED <<regVars, runVars, promiseVars, evalCalls, siteVars>>

\* a script of this scope is running: the rule implementation, or the
\* evaluation resumed by a bind
Scripting ==
    \/ analysis.pc = "invoke"
    \/ analysis.pc = "run_promises" /\ pc \in {"binding", "ok"} /\ bindIdx > 0

\* rule_impl.invoke(&mut eval, ctx)? returns
InvokeReturn(ok) ==
    /\ analysis.pc = "invoke"
    /\ AnalysisStep(ok, [analysis EXCEPT !.pc = "run_promises"])
    /\ UNCHANGED <<regVars, runVars, promiseVars, evalCalls, siteVars>>

\* AnalysisContext::run_promises has left its loop
\*   while let Some(promises) = get_promises() { promises.run_promises(..).await? }
CtxRunPromisesDone == pc = "idle" /\ ret.op = "get_promises" /\ ~ret.ok

\* the promises of the first round only
RunPromisesOneRound ==
    pc = "idle" /\ batch = None /\ ret.op \in {"get_promises", "run_promises"}

\* ctx.run_promises(dice, &mut eval).await has returned Ok
RunPromisesAwaited == CtxRunPromisesDone

\* promises.run_promises(..).await? returned an error inside the loop
CtxRunPromisesFails ==
    /\ analysis.pc = "run_promises"
    /\ pc = "err"
    /\ AnalysisFails
    /\ UNCHANGED <<regVars, runVars, promiseVars, evalCalls, siteVars>>

\* the tail of run_analysis_impl: the providers are frozen, the registry is
\* finalized and the AnalysisResult is returned
Finalize(ok) ==
    /\ analysis.pc = "run_promises"
    /\ RunPromisesAwaited
    /\ IF ok
       THEN /\ analysis' = [analysis EXCEPT !.pc = "ok", !.frozen = TRUE]
            /\ dice' = [dice EXCEPT ![Own] = DiceEntry(@.key, "ok", TRUE)]
            /\ finishLog' = Append(finishLog, Own)
       ELSE AnalysisFails
    /\ UNCHANGED <<regVars, runVars, promiseVars, evalCalls, siteVars>>

\* the key under analysis was built from q under the Linux platform, and
\* the engine has started Key::compute for it
OwnKey(q) == AnonTargetKeyNew(<<0, 0>>, Linux, q.rule, q.attributes).val[1]

AnalysisInit ==
    /\ registry = AnonTargetsRegistryNew(Linux)
    /\ nextPromise = 0
    /\ ret = [op |-> "new", ok |-> TRUE, error |-> None]
    /\ batch = None
    /\ pc = "idle"
    /\ shape = <<>>
    /\ targets = <<>>
    /\ values = <<>>
    /\ bindIdx = 0
    /\ bound = [p \in 1..MaxPromises |-> None]
    /\ bindLog = <<>>
    /\ finishLog = <<>>
    /\ evalCalls = <<>>
    /\ sites = <<>>
    /\ siteKeys = <<>>
    /\ \E q \in AnalysisRequests :
          /\ analysis = [pc |-> "get_rule_impl", key |-> Some(OwnKey(q)), deps |-> <<>>,
                         resolved |-> FALSE, invoked |-> FALSE, frozen |-> FALSE]
          /\ dice = << DiceEntry(OwnKey(q), "running", FALSE) >>

AnalysisNext ==
    \/ \E ok \in BOOLEAN : get_rule_impl(ok)
    \/ \E d \in 1..Len(analysis.deps), outcome \in DepOutcomes : get_analysis_result(d, outcome)
    \/ DepAnalysisResults
    \/ \E ok \in BOOLEAN : resolve_attrs(ok)
    \/ \E ok \in BOOLEAN : find_execution_platform(ok)
    \/ \E q \in ImplRequests : Scripting /\ register_one(q)
    \/ \E rules \in ImplRequestLists : Scripting /\ register_many(rules)
    \/ \E ok \in BOOLEAN : InvokeReturn(ok)
    \/ analysis.pc = "run_promises" /\ ~CtxRunPromisesDone /\ get_promises
    \/ RunPromisesStart
    \/ \E j \in 1..Len(dice) : ResolveReturn(j)
    \/ \E evalOk \in BOOLEAN : BindNext(evalOk)
    \/ RunPromisesReturn
    \/ \E j \in 1..Len(dice), outcome \in ComputeOutcomes :
          j # Own /\ ComputeFinish(j, outcome)
    \/ CtxRunPromisesFails
    \/ \E ok \in BOOLEAN : Finalize(ok)

SpecAnalysis == AnalysisInit /\ [][AnalysisNext]_vars

(***************************************************************************)
(* Properties of run_promises                                              *)
(***************************************************************************)
\* the entries of the batch run_promises is working on
BatchEntries == IF batch = None THEN <<>> ELSE batch[1].entries

\* the engine's computation for the descriptor of k
ComputationOf(k) == CHOOSE j \in 1..Len(dice) : dice[j].key.target = k.target

\* the provider value of the result the engine holds for k
ProvidersOfKey(k) ==
    [type |-> "providers", target |-> k.target,
     computed_by |-> dice[ComputationOf(k)].key.addr]

\* the value an entry's promise is to receive
ExpectedValue(e) ==
    IF e.xs.tag = "Left" THEN ProvidersOfKey(e.xs.keys[1])
    ELSE [type |-> "list",
          items |-> [n \in 1..Len(e.xs.keys) |-> ProvidersOfKey(e.xs.keys[n])]]

\* position of computation j in the order of completion, 0 while it runs
FinishPos(j) ==
    IF \E n \in 1..Len(finishLog) : finishLog[n] = j
    THEN CHOOSE n \in 1..Len(finishLog) : finishLog[n] = j
    ELSE 0

\* the descriptor of k failed to resolve
KeyFailed(k) ==
    \E j \in 1..Len(dice) : dice[j].key.target = k.target /\ dice[j].state = "err"

\* C1: every bound promise of the batch holds the result of its own key (a
\* Single entry), or the list of the results of its own keys in input order
\* (a List entry), whatever the mix and order of entries and the order in
\* which the keys finished.
C1_BoundToOwnKeys ==
    \A i \in 1..Len(BatchEntries) :
        bound[BatchEntries[i].promise] # None
            => bound[BatchEntries[i].promise][1] = ExpectedValue(BatchEntries[i])

BoundThisRun == SubSeq(bindLog, Len(bindLog) - bindIdx + 1, Len(bindLog))

\* C3: no promise is ever bound twice, and when run_promises returns Ok on a
\* batch of n entries it has bound exactly n promises, one per entry.
C3_OneBindPerEntry ==
    /\ \A a, b \in 1..Len(bindLog) : bindLog[a] = bindLog[b] => a = b
    /\ pc = "ok" =>
          /\ bindIdx = Len(BatchEntries)
          /\ Range(BoundThisRun) = {BatchEntries[i].promise : i \in 1..Len(BatchEntries)}
          /\ Cardinality(Range(BoundThisRun)) = Len(BatchEntries)

\* Ok on a batch of three entries, one of them a list of two keys: three
\* promises bound for four keys
C3_Witness ==
    /\ pc = "ok"
    /\ Len(BatchEntries) = 3
    /\ Len(targets) = 4
    /\ \E i \in 1..3 : BatchEntries[i].xs.tag = "Right" /\ Len(BatchEntries[i].xs.keys) = 2

\* C4: within a batch the promises are bound in the order their entries
\* were registered, whatever the order in which the keys finished.
C4_BindsInRegistrationOrder ==
    pc # "idle" =>
        /\ bindIdx <= Len(BatchEntries)
        /\ \A n \in 1..bindIdx : BoundThisRun[n] = BatchEntries[n].promise

\* two entries were bound although the key of the first finished after the
\* key of the second
C4_Witness ==
    /\ pc \in {"binding", "ok"}
    /\ bindIdx >= 2
    /\ BatchEntries[1].xs.tag = "Left"
    /\ BatchEntries[2].xs.tag = "Left"
    /\ FinishPos(ComputationOf(BatchEntries[1].xs.keys[1]))
          > FinishPos(ComputationOf(BatchEntries[2].xs.keys[1]))

\* C5: if the resolution of any key of the batch failed, run_promises does
\* not get past the join (it is still waiting, or has returned the error)
\* and no promise of the batch is bound.
C5_AllOrNothing ==
    (pc # "idle" /\ \E i \in 1..Len(targets) : KeyFailed(targets[i]))
        => /\ pc \in {"resolving", "err"}
           /\ \A i \in 1..Len(BatchEntries) : bound[BatchEntries[i].promise] = None

\* run_promises returned an error for a batch of several entries in which
\* one key failed after another key had resolved successfully
C5_Witness ==
    /\ pc = "err"
    /\ Len(BatchEntries) >= 2
    /\ \E i \in 1..Len(targets) : KeyFailed(targets[i])
    /\ \E i \in 1..Len(values) : values[i] # None

(***************************************************************************)
(* Properties of resolve and of key identity                               *)
(***************************************************************************)
\* the results handed so far to the callers of resolve on descriptor t:
\* the filled slots of run_promises and the returned eval_anon_target calls
ResultsFor(t) ==
    {values[i][1] : i \in {n \in 1..Len(values) :
                              values[n] # None /\ targets[n].target = t}}
    \cup {evalCalls[c].result[1].val[1] :
            c \in {n \in 1..Len(evalCalls) :
                      /\ evalCalls[n].result # None
                      /\ evalCalls[n].result[1].ok
                      /\ evalCalls[n].key.target = t}}

\* the callers of resolve on descriptor t that were told it failed
FailuresFor(t) ==
    {c \in 1..Len(evalCalls) :
        /\ evalCalls[c].result # None
        /\ ~evalCalls[c].result[1].ok
        /\ evalCalls[c].key.target = t}

\* C6: within one generation the engine runs one computation per
\* descriptor, however many keys equal to it are resolved and whoever
\* resolves them; the rule implementation is invoked by that computation
\* alone (once if it returned a result), and all callers get the one result.
C6_SingleFlight ==
    /\ \A a, b \in 1..Len(dice) :
          dice[a].key.target = dice[b].key.target => a = b
    /\ \A j \in 1..Len(dice) :
          /\ dice[j].state = "ok" => dice[j].invoked
          /\ Cardinality(ResultsFor(dice[j].key.target)) <= 1
          /\ ResultsFor(dice[j].key.target) # {} =>
                /\ dice[j].state = "ok"
                /\ FailuresFor(dice[j].key.target) = {}
                /\ \A r \in ResultsFor(dice[j].key.target) :
                      r.provider_collection.computed_by = dice[j].key.addr

\* two keys of one batch built at different call sites, and an
\* eval_anon_target call, all on one descriptor, all served by one computation
C6_Witness ==
    \E i, n \in 1..Len(targets), c \in 1..Len(evalCalls) :
        /\ targets[i].addr # targets[n].addr
        /\ targets[i].target = targets[n].target
        /\ evalCalls[c].key.target = targets[i].target
        /\ values[i] # None
        /\ values[n] # None
        /\ evalCalls[c].result # None

\* the keys built at the two call sites, when both calls succeeded
SiteKeysBuilt ==
    /\ Len(siteKeys) = 2
    /\ \A i \in 1..2 : siteKeys[i] # None /\ siteKeys[i][1].ok

SiteKey(i) == siteKeys[i][1].val[1]

SiteResolved(i) == \E c \in 1..Len(evalCalls) : evalCalls[c].key.addr = SiteAddr(i)

SameFourFields(a, b) ==
    /\ a.target.rule_type = b.target.rule_type
    /\ a.target.name = b.target.name
    /\ a.target.attrs = b.target.attrs
    /\ a.target.exec_cfg = b.target.exec_cfg

\* C7: keys built at two unrelated call sites (two allocations) are equal
\* exactly when rule, name, configured attributes and execution
\* configuration are all equal; equal keys hash equal; and once both are
\* resolved they share one computation exactly when they are equal.
C7_StructuralIdentity ==
    SiteKeysBuilt =>
        /\ SiteKey(1).addr # SiteKey(2).addr
        /\ KeyEq(SiteKey(1), SiteKey(2)) <=> SameFourFields(SiteKey(1), SiteKey(2))
        /\ KeyEq(SiteKey(1), SiteKey(2)) => KeyHash(SiteKey(1)) = KeyHash(SiteKey(2))
        /\ (SiteResolved(1) /\ SiteResolved(2)) =>
              (Len(dice) = 1 <=> SameFourFields(SiteKey(1), SiteKey(2)))

\* two call sites that were given different dicts built equal keys, and
\* resolving both started one computation
C7_Witness ==
    /\ SiteKeysBuilt
    /\ sites[1].attributes # sites[2].attributes
    /\ KeyEq(SiteKey(1), SiteKey(2))
    /\ SiteResolved(1)
    /\ SiteResolved(2)
    /\ Len(dice) = 1

\* the orders in which the entries of a dict can be written
Reorderings(attributes) ==
    {[i \in 1..Len(attributes) |-> attributes[f[i]]] :
        f \in Permutations(1..Len(attributes))}

\* the two calls both failed, or built keys that are equal and hash equal
SameKeyResult(r1, r2) ==
    /\ r1.ok = r2.ok
    /\ r1.ok => /\ SameFourFields(r1.val[1], r2.val[1])
                /\ KeyEq(r1.val[1], r2.val[1])
                /\ KeyHash(r1.val[1]) = KeyHash(r2.val[1])

\* C8: the key AnonTargetKey::new builds does not depend on the order in
\* which the attributes are written in the dict: every reordering of a call
\* site's dict gives a key equal to the one built there, with the same hash.
C8_OrderIndependent ==
    \A i \in 1..Len(siteKeys) :
        siteKeys[i] # None =>
            \A attributes \in Reorderings(sites[i].attributes) :
                SameKeyResult(siteKeys[i][1],
                    AnonTargetKeyNew(<<0, 0>>, sites[i].platform, sites[i].rule, attributes))

\* the two call sites were given one dict of two attributes in the two
\* orders, and both built a key
C8_Witness ==
    /\ SiteKeysBuilt
    /\ sites[1].rule = sites[2].rule
    /\ sites[1].platform = sites[2].platform
    /\ Len(sites[1].attributes) = 2
    /\ sites[1].attributes # sites[2].attributes
    /\ sites[2].attributes \in Reorderings(sites[1].attributes)

(***************************************************************************)
(* Properties of the registry                                              *)
(***************************************************************************)
\* what a step of get_promises has to do
DrainEffect ==
    IF registry.entries = <<>>
    THEN /\ ~ret'.ok
         /\ registry' = registry
         /\ batch' = None
    ELSE /\ ret'.ok
         /\ batch' = Some([execution_platform |-> registry.execution_platform,
                           entries |-> registry.entries])
         /\ registry'.entries = <<>>
         /\ registry'.execution_platform = registry.execution_platform

\* a step that registers an entry while a drained batch is held
RegistersBesideBatch ==
    /\ batch # None
    /\ nextPromise' # nextPromise
    /\ ret'.ok

\* C9: get_promises on an empty registry returns nothing and changes
\* nothing; on a non-empty one it returns all entries in registration order
\* and leaves an empty registry with the same execution platform; an entry
\* registered while the batch is held goes to the registry, never to the batch.
C9_Drain ==
    [][ /\ get_promises => DrainEffect
        /\ (batch # None /\ batch' # None) => batch' = batch
        /\ RegistersBesideBatch =>
              /\ Len(registry'.entries) = Len(registry.entries) + 1
              /\ registry'.entries[Len(registry'.entries)].promise = nextPromise'
              /\ registry'.execution_platform = batch[1].execution_platform
      ]_vars

\* a drained batch is being bound and an entry registered meanwhile sits in
\* the registry
C9_Witness ==
    /\ pc = "binding"
    /\ batch # None
    /\ registry.entries # <<>>
    /\ \A i \in 1..Len(registry.entries), j \in 1..Len(batch[1].entries) :
          registry.entries[i].promise > batch[1].entries[j].promise

\* the results of AnonTargetKey::new for each pair of a register_many call
\* made now
PairResults(rules) ==
    [n \in 1..Len(rules) |->
        AnonTargetKeyNew(<<nextPromise + 1, n>>, registry.execution_platform,
                         rules[n].rule, rules[n].attributes)]

FirstFailed(rs) == CHOOSE n \in 1..Len(rs) : ~rs[n].ok /\ \A m \in 1..(n - 1) : rs[m].ok

\* what a step of register_many(rules) has to do, given the results rs
RegisterManyEffect(rs) ==
    IF \E n \in 1..Len(rs) : ~rs[n].ok
    THEN /\ ~ret'.ok
         /\ ret'.error = rs[FirstFailed(rs)].error
         /\ registry' = registry
    ELSE /\ ret'.ok
         /\ registry'.execution_platform = registry.execution_platform
         /\ registry'.entries =
               Append(registry.entries,
                      [promise |-> nextPromise + 1,
                       xs |-> [tag |-> "Right",
                               keys |-> [n \in 1..Len(rs) |-> rs[n].val[1]]]])

\* C10: register_many is atomic: if any pair fails to coerce the call
\* returns that error and the registry is what it was; if all succeed
\* exactly one entry (promise, List of the N keys in input order) is appended.
C10_RegisterManyAtomic ==
    [][ (nextPromise' # nextPromise /\ ret'.op = "register_many") =>
            \A rules \in RequestLists :
                register_many(rules) => RegisterManyEffect(PairResults(rules)) ]_vars

\* a register_many call has just failed on a registry that holds an entry
C10_Witness ==
    /\ ret.op = "register_many"
    /\ ~ret.ok
    /\ Len(registry.entries) >= 1

\* C11: assert_no_promises returns Ok exactly when the registry holds no
\* entry, returns AssertNoPromisesFailed when an entry registered since the
\* last drain is still there, and leaves the registry as it was.
C11_AssertNoPromises ==
    [][ (ret'.op = "assert_no_promises") =>
            /\ registry' = registry
            /\ ret'.ok <=> (registry.entries = <<>>)
            /\ ~ret'.ok => ret'.error = Some(Error("AssertNoPromisesFailed", <<>>)) ]_vars

\* the assert has just failed on a registry that was drained before and
\* holds an entry registered after that drain
C11_Witness ==
    /\ ret.op = "assert_no_promises"
    /\ ~ret.ok
    /\ bindLog # <<>>
    /\ batch = None
    /\ registry.entries # <<>>

(***************************************************************************)
(* Properties of run_analysis_impl                                         *)
(***************************************************************************)
\* C12: when run_analysis_impl returns a result, the drain -> resolve ->
\* bind loop has run to a drain that yielded nothing: the scope's registry
\* is empty, no batch is outstanding and every promise registered by the
\* rule implementation or by resumed evaluation is bound; and the providers
\* are frozen only in that state.
C12_PromisesFixedPoint ==
    /\ analysis.pc = "ok" =>
          /\ registry.entries = <<>>
          /\ batch = None
          /\ pc = "idle"
          /\ \A p \in 1..nextPromise : bound[p] # None
    /\ analysis.frozen => analysis.pc = "ok"

\* a result was returned after three promises were registered and bound, in
\* registration order, with keys of two descriptors other than the scope's own
C12_Witness ==
    /\ analysis.pc = "ok"
    /\ analysis.frozen
    /\ nextPromise = MaxPromises
    /\ bindLog = <<1, 2, 3>>
    /\ Len(dice) = 3

\* the run in progress resolves a key equal to the key under analysis
ResolvesOwnKey ==
    /\ analysis.key # None
    /\ \E i \in 1..Len(targets) : KeyEq(targets[i], analysis.key[1])

\* C13 as stated: once the analysis of a key resolves a key structurally
\* identical to it, its own resolve never completes, neither with a result
\* nor with an error.
C13_NeverCompletes ==
    ResolvesOwnKey => dice[Own].state = "running"

\* C13: there is no recursion guard: once the analysis of a key resolves a
\* key structurally identical to it, that key's slot is never filled, no
\* promise of the batch is bound and the analysis never returns a result; it
\* returns at all only with the error of another key of the same batch that
\* failed to resolve.
C13_NoResultFromOwnKey ==
    ResolvesOwnKey =>
        /\ pc \in {"resolving", "err"}
        /\ analysis.pc \in {"run_promises", "err"}
        /\ dice[Own].state # "ok"
        /\ \A i \in 1..Len(targets) :
              KeyEq(targets[i], analysis.key[1]) => values[i] = None
        /\ \A i \in 1..Len(BatchEntries) : bound[BatchEntries[i].promise] = None
        /\ dice[Own].state = "err" =>
              \E i \in 1..Len(targets) :
                  /\ ~KeyEq(targets[i], analysis.key[1])
                  /\ KeyFailed(targets[i])

\* the join waits for the key under analysis alone: every other key of the
\* batch has resolved
C13_Witness ==
    /\ ResolvesOwnKey
    /\ pc = "resolving"
    /\ Len(targets) >= 2
    /\ \A i \in 1..Len(targets) :
          ~KeyEq(targets[i], analysis.key[1]) => values[i] # None
    /\ \E i \in 1..Len(targets) : ~KeyEq(targets[i], analysis.key[1])

DepFailed(d) == analysis.deps[d].state \in {"failed", "incompatible"}

\* C14: the dep join of run_analysis_impl is a keep-going join: it covers
\* every label that deps() collects, it returns only when the analysis of
\* every one of them has completed, also when one has already failed, and
\* if one failed or is incompatible the resolve fails before the rule
\* implementation is invoked.
C14_KeepGoingJoin ==
    /\ analysis.pc \notin {"none", "get_rule_impl"} /\ analysis.deps # <<>> =>
          [d \in 1..Len(analysis.deps) |-> analysis.deps[d].label] = deps(analysis.key[1])
    /\ analysis.pc \notin {"none", "get_rule_impl", "deps"} =>
          \A d \in 1..Len(analysis.deps) : analysis.deps[d].state # "pending"
    /\ (\E d \in 1..Len(analysis.deps) : DepFailed(d)) =>
          /\ analysis.pc \in {"deps", "err"}
          /\ ~analysis.invoked

\* the resolve failed after both dependencies had been analysed and both
\* had failed, so one of them completed after the other had failed
C14_Witness ==
    /\ analysis.pc = "err"
    /\ Len(analysis.deps) = 2
    /\ analysis.deps[1].state = "failed"
    /\ analysis.deps[2].state = "incompatible"

(***************************************************************************)
(* Properties of AnonTargetKey::new                                        *)
(***************************************************************************)
\* call site i has returned
Returned(i) == siteKeys[i] # None

NewResult(i) == siteKeys[i][1]

\* the configured attribute set of the key built at call site i
BuiltAttrs(i) == NewResult(i).val[1].target.attrs

SuppliedKeys(i) == {sites[i].attributes[n][1] : n \in 1..Len(sites[i].attributes)}

SuppliedValue(i, k) ==
    sites[i].attributes[CHOOSE n \in 1..Len(sites[i].attributes) :
                            sites[i].attributes[n][1] = k][2]

\* the attributes the rule itself declares
Declared(rule) ==
    {rule.attr_specs[n].name : n \in 1..Len(rule.attr_specs)} \ internal_attrs

\* the supplied entry is taken by the first loop
EntryAccepted(rule, e) ==
    IF e[1] = "name" THEN e[2].type = "label" \/ (e[2].type = "string" /\ parse_target_label(e[2].s).ok)
    ELSE /\ e[1] \in Declared(rule)
         /\ LET typ == SpecAttribute(rule, e[1])[1].coercer
            IN  IF typ \in {"dep", "configured_dep"} THEN e[2].type = "dependency"
                ELSE e[2].type = typ

AllAccepted(i) ==
    \A n \in 1..Len(sites[i].attributes) : EntryAccepted(sites[i].rule, sites[i].attributes[n])

\* the first declared attribute, in schema order, that has no default and
\* was not supplied
FirstMissing(i, n) ==
    LET sp == sites[i].rule.attr_specs
        missing(m) == /\ sp[m].name \notin internal_attrs
                      /\ sp[m].name \notin SuppliedKeys(i)
                      /\ sp[m].attr.default = None
    IN  missing(n) /\ \A m \in 1..(n - 1) : ~missing(m)

\* C15: for a declared attribute that was not supplied the built set holds
\* the schema default; if it has no default the call fails, with
\* MissingAttribute naming it when the supplied attributes were accepted and
\* it is the first such attribute of the schema; a supplied value is kept,
\* never replaced by the default.
C15_Defaulting ==
    \A i \in 1..Len(siteKeys) :
        Returned(i) =>
            \A n \in 1..Len(sites[i].rule.attr_specs) :
                LET k == sites[i].rule.attr_specs[n].name
                    a == sites[i].rule.attr_specs[n].attr
                IN  k \notin internal_attrs =>
                      IF k \in SuppliedKeys(i)
                      THEN NewResult(i).ok =>
                              /\ OrderedMapGet(BuiltAttrs(i), k) # None
                              /\ OrderedMapGet(BuiltAttrs(i), k)[1].s = SuppliedValue(i, k).s
                      ELSE IF a.default # None
                      THEN NewResult(i).ok =>
                              OrderedMapGet(BuiltAttrs(i), k)
                                  = Some(ConfiguredAttr(a.default[1].lit, a.default[1].s))
                      ELSE /\ ~NewResult(i).ok
                           /\ (AllAccepted(i) /\ FirstMissing(i, n)) =>
                                 NewResult(i).error = Some(Error("MissingAttribute", <<k>>))

\* schema {value: string, extra: string default "d"} with input {value: "x"}
\* gave {extra: "d", value: "x"}
C15_Witness ==
    /\ Len(siteKeys) = 1
    /\ Returned(1)
    /\ sites[1].rule = RuleA
    /\ sites[1].attributes = << <<"value", StrValue(<<"x">>)>> >>
    /\ NewResult(1).ok
    /\ BuiltAttrs(1) = << <<"extra", ConfiguredAttr("String", <<"d">>)>>,
                          <<"value", ConfiguredAttr("String", <<"x">>)>> >>

\* C16: the configured attribute set of every key AnonTargetKey::new builds
\* has exactly the rule's declared attributes as its keys, each once: no
\* internal name, no "name", no name the schema lacks, none left out.
C16_ExactlyDeclared ==
    \A i \in 1..Len(siteKeys) :
        (Returned(i) /\ NewResult(i).ok) =>
            /\ OrderedMapKeys(BuiltAttrs(i)) = Declared(sites[i].rule)
            /\ Len(BuiltAttrs(i)) = Cardinality(Declared(sites[i].rule))
            /\ OrderedMapKeys(BuiltAttrs(i)) \cap (internal_attrs \cup {"name"}) = {}

\* a key was built from {name, dep} for the rule that declares dep and n
C16_Witness ==
    /\ Len(siteKeys) = 1
    /\ Returned(1)
    /\ NewResult(1).ok
    /\ sites[1].rule = RuleB
    /\ SuppliedKeys(1) = {"name", "dep"}
    /\ OrderedMapKeys(BuiltAttrs(1)) = {"dep", "n"}

\* entry n of the dict at call site i is the first one the loop rejects
FirstRejected(i, n) ==
    /\ ~EntryAccepted(sites[i].rule, sites[i].attributes[n])
    /\ \A m \in 1..(n - 1) : EntryAccepted(sites[i].rule, sites[i].attributes[m])

\* C17: a supplied attribute other than "name" with an internal name, or
\* with a name that is neither internal nor declared by the rule, makes the
\* call fail and no key is produced; when it is the first entry the loop
\* rejects the error is InternalAttribute, respectively UnknownAttribute,
\* naming it.
C17_RejectsBadNames ==
    \A i \in 1..Len(siteKeys) :
        Returned(i) =>
            \A n \in 1..Len(sites[i].attributes) :
                LET k == sites[i].attributes[n][1]
                IN  (k # "name" /\ k \notin Declared(sites[i].rule)) =>
                        /\ ~NewResult(i).ok
                        /\ NewResult(i).val = None
                        /\ FirstRejected(i, n) =>
                              NewResult(i).error =
                                  Some(Error(IF k \in internal_attrs THEN "InternalAttribute"
                                             ELSE "UnknownAttribute", <<k>>))

\* a call that supplied an internal attribute and an undeclared one, in
\* this order, failed with InternalAttribute
C17_Witness ==
    /\ Len(siteKeys) = 1
    /\ Returned(1)
    /\ Len(sites[1].attributes) = 2
    /\ sites[1].attributes[1][1] = "visibility"
    /\ sites[1].attributes[2][1] = "bogus"
    /\ NewResult(1).error = Some(Error("InternalAttribute", <<"visibility">>))

\* C18: when "name" is omitted the descriptor's name is the label with cell
\* "anon", empty package and the rule's name as target, so every key that is
\* built has a name with a valid target; when "name" is the first entry the
\* loop rejects, a string value fails with NotTargetLabel carrying it, and
\* a value that is neither a label nor a string fails with InvalidNameType.
C18_NameResolution ==
    \A i \in 1..Len(siteKeys) :
        Returned(i) =>
            /\ NewResult(i).ok =>
                  /\ TargetNameValid(NewResult(i).val[1].target.name.target)
                  /\ "name" \notin SuppliedKeys(i) =>
                        NewResult(i).val[1].target.name =
                            TargetLabel(<<"a", "n", "o", "n">>, <<>>, sites[i].rule.name)
            /\ \A n \in 1..Len(sites[i].attributes) :
                  LET v == sites[i].attributes[n][2]
                  IN  (FirstRejected(i, n) /\ sites[i].attributes[n][1] = "name") =>
                          NewResult(i).error =
                              Some(IF v.type = "string" THEN Error("NotTargetLabel", v.s)
                                   ELSE Error("InvalidNameType", <<v.type>>))

(***************************************************************************)
(* Properties of parse_target_label and of the coercion context            *)
(***************************************************************************)
\* s is cell//package:target or package:target: a ':' follows the cell
\* part, and what follows the first such ':' is a target name
HasLabelForm(s) ==
    LET ss == SlashSlashFrom(s, 1)
        rest == IF ss = 0 THEN s ELSE SubSeq(s, ss + 2, Len(s))
    IN  /\ IndexOf(rest, ":") # 0
        /\ TargetNameValid(SubSeq(rest, IndexOf(rest, ":") + 1, Len(rest)))

Parsed == ret.op = "parse_target_label" /\ Returned(1)

\* C19 as stated: parse_target_label accepts exactly the strings of the
\* form [cell//]package:target with a non-empty target, and the display
\* string of the label of every accepted string is the string.
C19_RoundTrip ==
    Parsed =>
        /\ NewResult(1).ok <=> HasLabelForm(sites[1])
        /\ NewResult(1).ok => TargetLabelDisplay(NewResult(1).val[1]) = sites[1]

\* C19, amended: the same language is accepted; an accepted string with a
\* "//" is the display string of its label, and for an accepted string
\* without "//" the label has the empty cell and its display string is the
\* string after "//".
C19_RoundTripWithCell ==
    Parsed =>
        /\ NewResult(1).ok <=> HasLabelForm(sites[1])
        /\ NewResult(1).ok =>
              IF SlashSlashFrom(sites[1], 1) # 0
              THEN TargetLabelDisplay(NewResult(1).val[1]) = sites[1]
              ELSE /\ NewResult(1).val[1].cell = <<>>
                   /\ TargetLabelDisplay(NewResult(1).val[1]) = <<"/", "/">> \o sites[1]

\* "c//c/c:c" does not fit the bound; "//c/c:c" and "c:c" do
C19_Witness ==
    /\ Parsed
    /\ sites[1] = <<"c", ":", "c">>
    /\ NewResult(1).ok
    /\ TargetLabelDisplay(NewResult(1).val[1]) = <<"/", "/", "c", ":", "c">>

\* C20: coerce_label, coerce_path, coerce_target_pattern and
\* visit_query_function_literals fail for every string, with
\* CantParseDuringCoerce carrying the string, and so does the coercion of a
\* string for an attribute of a type that asks the context.
C20_CantParseDuringCoerce ==
    (Returned(1) /\ ret.op # "parse_target_label") =>
        /\ ~NewResult(1).ok
        /\ NewResult(1).val = None
        /\ NewResult(1).error = Some(Error("CantParseDuringCoerce", sites[1]))

\* a label attribute was given a string that parse_target_label accepts
C20_Witness ==
    /\ Returned(1)
    /\ ret.op = "label"
    /\ sites[1] = <<"/", "/", "c", ":", "c">>
    /\ NewResult(1).error = Some(Error("CantParseDuringCoerce", sites[1]))

(***************************************************************************)
(* Properties of run_promises and of the registry, continued               *)
(***************************************************************************)
\* the positions in the batch of the entries whose promise is bound
BoundEntries == {i \in 1..Len(BatchEntries) : bound[BatchEntries[i].promise] # None}

RunErrorKind == ret.error[1].err

\* C21 as stated: whenever run_promises has returned an error, no promise of
\* its batch is bound.
C21_NoPartialBatch ==
    pc = "err" => BoundEntries = {}

\* C21, amended: when run_promises returns the error of a key, no promise
\* of its batch is bound; when it returns the error of a bind, the promises
\* of the entries up to the failing one are bound, the failing one
\* included, and no promise of a later entry is.
C21_ErrorBindsPrefix ==
    pc = "err" =>
        /\ ret.op = "run_promises" /\ ~ret.ok
        /\ RunErrorKind \in {"AnalysisFailed", "EvalFailed"}
        /\ RunErrorKind = "AnalysisFailed" => BoundEntries = {}
        /\ RunErrorKind = "EvalFailed" => bindIdx >= 1 /\ BoundEntries = 1..bindIdx

\* run_promises returned the error of the second bind of a batch of three
C21_Witness ==
    /\ pc = "err"
    /\ RunErrorKind = "EvalFailed"
    /\ Len(BatchEntries) = 3
    /\ BoundEntries = {1, 2}

(***************************************************************************)
(* Properties of FileName                                                  *)
(***************************************************************************)
\* s is not empty, is not "." or "..", and holds no '/' and no '\'
PlainFileName(s) ==
    /\ s # <<>>
    /\ s # <<".">>
    /\ s # <<".", ".">>
    /\ \A i \in 1..Len(s) : s[i] \notin {"/", "\\"}

\* C22: FileName::new(s) succeeds if and only if s is not empty, is not "."
\* or "..", and holds neither '/' nor '\'; FileNameBuf::try_from(String)
\* succeeds for exactly the same strings; both keep the string as it is.
C22_FileNameAccepts ==
    (Returned(1) /\ ret.op \in {"FileName::new", "FileNameBuf::try_from"}) =>
        /\ NewResult(1).ok <=> PlainFileName(sites[1])
        /\ NewResult(1).ok => NewResult(1).val[1].str = sites[1]

\* FileNameBuf::try_from accepted a name that starts with a dot and holds NUL
C22_Witness ==
    /\ Returned(1)
    /\ ret.op = "FileNameBuf::try_from"
    /\ sites[1] = <<".", "NUL", "x">>
    /\ NewResult(1).ok

\* C23: no promise of a batch is bound, and the loop that binds is not
\* entered, before the resolution of every key of the batch has completed
\* with a result.
C23_BindAfterJoin ==
    (pc = "binding" \/ BoundEntries # {}) =>
        \A i \in 1..Len(targets) :
            /\ values[i] # None
            /\ ResolveResult(dice, targets[i]) # None
            /\ ResolveResult(dice, targets[i])[1].ok

\* the first promise of a batch was bound after two computations, for two
\* different keys of the batch, had finished
C23_Witness ==
    /\ pc = "binding"
    /\ bindIdx = 1
    /\ BoundEntries = {1}
    /\ \E i, j \in 1..Len(targets) :
          DiceLookup(dice, targets[i]) # DiceLookup(dice, targets[j])
    /\ Len(finishLog) >= 2

\* this step is a call of register_one
RegisterOneStep == nextPromise' = nextPromise + 1 /\ ret'.op = "register_one"

\* C24: a register_one that succeeds appends exactly one entry, the new
\* promise with Single(key), after the entries that were there, which keep
\* their order; one that fails returns the error and leaves the entries as
\* they were.  Either way the execution platform stays.
C24_RegisterOneFrame ==
    [][ RegisterOneStep =>
          /\ registry'.execution_platform = registry.execution_platform
          /\ IF ret'.ok
             THEN /\ Len(registry'.entries) = Len(registry.entries) + 1
                  /\ SubSeq(registry'.entries, 1, Len(registry.entries)) = registry.entries
                  /\ LET last == registry'.entries[Len(registry'.entries)]
                     IN  /\ last.promise = nextPromise'
                         /\ last.xs.tag = "Left"
                         /\ Len(last.xs.keys) = 1
                         /\ last.xs.keys[1].addr = <<nextPromise', 0>>
                         /\ TargetNameValid(last.xs.keys[1].target.name.target)
             ELSE /\ registry'.entries = registry.entries
                  /\ ret'.error # None
      ]_vars

\* a register_one failed on a registry that held two entries, which are
\* still there
C24_Witness ==
    /\ ret.op = "register_one"
    /\ ~ret.ok
    /\ nextPromise = 3
    /\ Len(registry.entries) = 2

\* C25: the rule implementation is invoked only after every dependency of
\* the key has resolved successfully and the attributes have been resolved;
\* if a dependency or the resolution of an attribute fails, the rule
\* implementation is never invoked, and resolve returns an error: no
\* providers are frozen and the result holds no value.
C25_InvokeAfterDeps ==
    analysis.pc # "none" =>
        /\ analysis.invoked =>
              /\ \A d \in 1..Len(analysis.deps) : analysis.deps[d].state = "ok"
              /\ analysis.resolved
        /\ ((\E d \in 1..Len(analysis.deps) : DepFailed(d))
               \/ (analysis.pc = "err" /\ ~analysis.resolved)) =>
              /\ ~analysis.invoked
              /\ ~analysis.frozen
              /\ dice[Own].state \in {"running", "err"}
              /\ analysis.pc = "err" =>
                    /\ ~dice[Own].invoked
                    /\ ResolveResult(dice, analysis.key[1]) # None
                    /\ ~ResolveResult(dice, analysis.key[1])[1].ok
                    /\ ResolveResult(dice, analysis.key[1])[1].val = None
        /\ dice[Own].state = "ok" => analysis.invoked /\ analysis.frozen

\* the analysis of a key with two dependencies returned an error without
\* invoking the rule implementation: one dependency resolved, the other failed
C25_Witness ==
    /\ analysis.pc = "err"
    /\ Len(analysis.deps) = 2
    /\ analysis.deps[1].state = "ok"
    /\ analysis.deps[2].state = "failed"
    /\ ~analysis.invoked
    /\ dice[Own].state = "err"

\* the promises of the entries held by the registry, and by the batch
RegistryPromises == {registry.entries[i].promise : i \in 1..Len(registry.entries)}

BatchPromises == {BatchEntries[i].promise : i \in 1..Len(BatchEntries)}

\* C26: rounds run one after the other, in the order drained.  While a
\* batch is held, the entries in the registry were registered after every
\* entry of the batch and none of them is bound; a promise is bound only
\* when no entry registered before it is still waiting to be bound; and
\* promises are bound in the order in which they were registered.
C26_RoundsInOrder ==
    /\ batch # None =>
          \A q \in RegistryPromises :
              /\ bound[q] = None
              /\ \A p \in BatchPromises : q > p
    /\ \A p, q \in RegistryPromises \cup BatchPromises :
          (bound[p] # None /\ bound[q] = None) => q > p
    /\ \A m, n \in 1..Len(bindLog) : m < n => bindLog[m] < bindLog[n]
    /\ pc \in {"binding", "ok"} => BoundEntries = 1..bindIdx

\* the second round is binding its promise after the first round bound
\* its own, and an entry registered since waits in the registry
C26_Witness ==
    /\ pc = "ok"
    /\ BatchPromises = {2}
    /\ bindLog = <<1, 2>>
    /\ RegistryPromises = {3}

\* the keys held by the entries of a registry
KeysOf(reg) ==
    UNION {Range(reg.entries[i].xs.keys) : i \in 1..Len(reg.entries)}

\* every key in the registry, in the drained batch and in the flattened
\* targets carries the execution configuration of the registry's platform,
\* and the batch has the registry's platform
KeysCarryCfg ==
    /\ \A k \in KeysOf(registry) \cup Range(targets) :
          k.target.exec_cfg = ExecutionPlatformCfg(registry.execution_platform)
    /\ batch # None =>
          /\ batch[1].execution_platform = registry.execution_platform
          /\ \A k \in KeysOf(batch[1]) :
                k.target.exec_cfg = ExecutionPlatformCfg(registry.execution_platform)

\* C27: no step of the scope, a drain included, changes the execution
\* platform of the registry, and after every step every key built by the
\* registry, whether still registered or drained, carries the execution
\* configuration of that platform.
C27_ExecCfgInherited ==
    [][ /\ registry'.execution_platform = registry.execution_platform
        /\ KeysCarryCfg' ]_vars

\* under the linux platform, a batch was drained and a key was registered
\* after the drain
C27_Witness ==
    /\ registry.execution_platform.platform = Some("linux")
    /\ batch # None
    /\ KeysOf(batch[1]) # {}
    /\ KeysOf(registry) # {}
    /\ \A k \in KeysOf(batch[1]) \cup KeysOf(registry) : k.target.exec_cfg = "cfg_for_linux"

\* C28: a supplied attribute whose schema type is dep or configured_dep
\* takes only a dependency value, whose label becomes the configured
\* attribute as it is; with any other value no key is produced, and when
\* the entry is the first the loop rejects the error is InvalidDep naming
\* the type of the value.
C28_DepAttrs ==
    \A i \in 1..Len(siteKeys) :
        Returned(i) =>
            \A n \in 1..Len(sites[i].attributes) :
                LET k == sites[i].attributes[n][1]
                    v == sites[i].attributes[n][2]
                    attr == SpecAttribute(sites[i].rule, k)
                IN  (k \in Declared(sites[i].rule) /\ unpack_dep(attr[1].coercer)) =>
                        IF v.type = "dependency"
                        THEN NewResult(i).ok =>
                                OrderedMapGet(BuiltAttrs(i), k) =
                                    Some(ConfiguredAttr("ConfiguredDep", v.s))
                        ELSE /\ ~NewResult(i).ok
                             /\ NewResult(i).val = None
                             /\ FirstRejected(i, n) =>
                                   NewResult(i).error = Some(Error("InvalidDep", <<v.type>>))

\* a rule with a dep and a configured dep attribute was given a dependency
\* for the first and a string for the second
C28_Witness ==
    /\ Len(siteKeys) = 1
    /\ Returned(1)
    /\ sites[1].rule = RuleD
    /\ Len(sites[1].attributes) = 2
    /\ sites[1].attributes[1] = <<"dep", DepValue(<<"p">>)>>
    /\ sites[1].attributes[2][1] = "dep2"
    /\ sites[1].attributes[2][2].type = "string"
    /\ NewResult(1).error = Some(Error("InvalidDep", <<"string">>))

\* the values of SharedResult<AnalysisResult> the engine holds or has handed
\* out: of the finished computations, of the returned eval_anon_target
\* calls and of the filled slots of run_promises
SharedResults ==
    {ResolveResult(dice, dice[j].key)[1] :
        j \in {n \in 1..Len(dice) : dice[n].state # "running"}}
    \cup {evalCalls[c].result[1] :
            c \in {n \in 1..Len(evalCalls) : evalCalls[n].result # None}}
    \cup {Ok(values[i][1]) : i \in {n \in 1..Len(values) : values[n] # None}}

\* C29: Key::equality is false for every pair of memoized values, a value
\* and itself included, while every caller of resolve within the generation
\* is handed the one value the engine holds for its key.
C29_AlwaysChanged ==
    /\ \A a, b \in SharedResults : ~equality(a, b)
    /\ \A c \in 1..Len(evalCalls) :
          evalCalls[c].result # None =>
              evalCalls[c].result = ResolveResult(dice, evalCalls[c].key)
    /\ \A i \in 1..Len(values) :
          values[i] # None => Some(Ok(values[i][1])) = ResolveResult(dice, targets[i])

\* an eval_anon_target call and a slot of run_promises hold the same value
\* of one key, and there is a failed computation as well
C29_Witness ==
    /\ \E c \in 1..Len(evalCalls), i \in 1..Len(values) :
          /\ evalCalls[c].result # None
          /\ values[i] # None
          /\ evalCalls[c].result[1] = Ok(values[i][1])
    /\ \E j \in 1..Len(dice) : dice[j].state = "err"

\* the promises of the entries of a registry, in the order of its entries
EntryPromises(reg) == [i \in 1..Len(reg.entries) |-> reg.entries[i].promise]

Increasing(sq) == \A m, n \in 1..Len(sq) : m < n => sq[m] < sq[n]

\* the entries waiting in the registry and those of the drained batch are
\* each in registration order, and no entry is in both
EntriesOnce ==
    /\ Increasing(EntryPromises(registry))
    /\ batch # None =>
          /\ Increasing(EntryPromises(batch[1]))
          /\ RegistryPromises \cap BatchPromises = {}

\* this step is a drain that handed out a batch
DrainStep == batch = None /\ batch' # None

\* C30: the entries of the registry change only by a successful register
\* call, which appends its one entry, and by a drain, which hands out all
\* of them in their order and leaves none; a batch appears only by a drain
\* and goes only when run_promises has bound it.  So every registered entry
\* is in exactly one batch, that of the first drain after its registration,
\* and batches are in registration order.
C30_NoEntryLost ==
    [][ /\ EntriesOnce'
        /\ DrainStep =>
              /\ batch'[1].entries = registry.entries
              /\ registry.entries # <<>>
              /\ registry'.entries = <<>>
        /\ registry'.entries # registry.entries =>
              \/ DrainStep
              \/ /\ nextPromise' = nextPromise + 1
                 /\ ret'.ok
                 /\ ret'.op \in {"register_one", "register_many"}
                 /\ Len(registry'.entries) = Len(registry.entries) + 1
                 /\ SubSeq(registry'.entries, 1, Len(registry.entries)) = registry.entries
                 /\ registry'.entries[Len(registry'.entries)].promise = nextPromise'
        /\ (nextPromise' = nextPromise + 1 /\ ret'.ok) =>
              Len(registry'.entries) = Len(registry.entries) + 1
        /\ batch' # batch => DrainStep \/ (pc = "ok" /\ batch' = None)
      ]_vars

\* a drained batch holds a Single and a List entry in the order of their
\* registration, and the registry holds an entry registered after the drain
C30_Witness ==
    /\ batch # None
    /\ EntryPromises(batch[1]) = <<1, 2>>
    /\ batch[1].entries[1].xs.tag = "Left"
    /\ batch[1].entries[2].xs.tag = "Right"
    /\ EntryPromises(registry) = <<3>>

\* C31: every index and every index of a range that the shape records for
\* an entry is within the flattened targets, and so within the values, for
\* every batch; binding never indexes past the end and never panics.
C31_IndicesInBounds ==
    /\ pc # "panic"
    /\ \A n \in 1..Len(shape) :
          \A m \in 1..Len(ShapeIndices(shape[n])) :
              ShapeIndices(shape[n])[m] < Len(targets)

\* the error the first loop gives for the supplied entry e taken alone
EntryError(rule, e) == CoerceEntries(rule, <<e>>, 1, KeyAcc(None, <<>>, None)).error

\* C32: the error of AnonTargetKey::new is that of the first supplied
\* entry, in the order of the dict, that the loop rejects: a name error,
\* InternalAttribute, UnknownAttribute or a coercion error, whatever comes
\* after it and whatever is missing.  MissingAttribute is returned only
\* when every supplied entry was accepted, and names the first attribute in
\* schema order that has no default and was not supplied.  With nothing
\* rejected and nothing missing the call succeeds.
C32_ErrorPrecedence ==
    \A i \in 1..Len(siteKeys) :
        Returned(i) =>
            /\ \A n \in 1..Len(sites[i].attributes) :
                  FirstRejected(i, n) =>
                      /\ NewResult(i).error = EntryError(sites[i].rule, sites[i].attributes[n])
                      /\ NewResult(i).error # None
                      /\ NewResult(i).error[1].err \in
                            {"NotTargetLabel", "UnexpectedFormat", "InvalidNameType",
                             "InternalAttribute", "UnknownAttribute", "InvalidDep",
                             "CoercionError"}
            /\ (~NewResult(i).ok /\ NewResult(i).error[1].err = "MissingAttribute") =>
                  AllAccepted(i)
            /\ \A n \in 1..Len(sites[i].rule.attr_specs) :
                  (AllAccepted(i) /\ FirstMissing(i, n)) =>
                      NewResult(i).error =
                          Some(Error("MissingAttribute", <<sites[i].rule.attr_specs[n].name>>))
            /\ NewResult(i).ok <=>
                  /\ AllAccepted(i)
                  /\ \A n \in 1..Len(sites[i].rule.attr_specs) : ~FirstMissing(i, n)

\* a call on a rule with two attributes without default supplied neither,
\* and an undeclared attribute before an internal one: the undeclared one
\* is reported
C32_Witness ==
    /\ Len(siteKeys) = 1
    /\ Returned(1)
    /\ sites[1].rule = RuleD
    /\ Len(sites[1].attributes) = 2
    /\ sites[1].attributes[1][1] = "bogus"
    /\ sites[1].attributes[2][1] = "visibility"
    /\ NewResult(1).error = Some(Error("UnknownAttribute", <<"bogus">>))

====
